---- MODULE Spec2Model ----
(***************************************************************************)
(* Model of the scheduling and analysis core of family_emotions_app.       *)
(*                                                                         *)
(* The repository holds two service stacks that do not share code:         *)
(*  - the application stack (src/application, src/infrastructure/external, *)
(*    src/core/services/user_service.py) working on the ORM tables of      *)
(*    src/core/models through one SQLAlchemy session;                      *)
(*  - the domain stack (src/core/domain, src/core/services/checkin_service *)
(*    and emotion_translator_service) working on domain entities through   *)
(*    the repository interfaces of src/core/repositories/interfaces.py.    *)
(* Both are modelled, each with its own store.  The relational schema is   *)
(* the one of migrations/versions/001_initial_schema.py (its unique        *)
(* indexes and check constraints are enforced by the store); where a call  *)
(* takes an argument "constrained", the tables made by create_tables from  *)
(* the ORM models, which carry no check constraint, are covered as well.   *)
(*                                                                         *)
(* Time is counted in ticks; a day has TicksPerDay ticks and day 0 is a    *)
(* Monday.  Analytics event tracking (track_event) is an external          *)
(* collaborator without effect on the modelled state.                      *)
(***************************************************************************)
EXTENDS Integers, Sequences, FiniteSets, TLC

VARIABLES
    now,            \* the clock (datetime.now / date.today), in ticks
    \* application stack, check-ins
    checkins,       \* ORM table "checkins": sequence of rows, id = index
    sent,           \* per check-in id: number of messages sent for it
    lastCall,       \* outcome of the last CheckinService / dispatch call
    \* application stack, daily quota of the user u1
    users,          \* ORM row of u1: daily_requests_count, last_request_date
    served,         \* history: translations served today, per stack
    requested,      \* history: create_emotion_translation calls made today
    quotaLast,      \* outcome of the last EmotionService call
    in_flight,      \* create_emotion_translation calls suspended at the provider
    \* domain stack
    checkin_repository, \* CheckIn entities, id = index
    redis,              \* cache entries [key, value] (all with the 1 h TTL)
    domain_user,        \* User aggregate of u1: request counter and its date
    domLast,            \* outcome of the last domain-service call
    \* TaskScheduler
    running_tasks,  \* job id -> id of the task in the dict (0: no entry)
    live,           \* job id -> ids of the tasks created and not finished
    counts,         \* job id -> history counters fired / created / skipped
    \* weekly reports
    weekly_reports, \* table "weekly_reports": sequence of rows, id = index
    pending,        \* AnalyticsService.generate calls between check and save
    reportLast,     \* outcome of the last generate call
    \* application stack, provider calls
    translations,   \* ORM table "emotion_translations": sequence of rows
    rate_limiter,   \* RateLimiter of ClaudeService: times of the requests recorded
    \* job registry of the scheduler
    jobs,           \* job id -> the definition registered ("none": no job)
    scheduler,      \* history of the registry: calls made, definitions fired
    engine          \* clock and next run times of the AsyncIOScheduler

checkinVars == <<checkins, sent, lastCall>>
quotaVars == <<users, served, requested, quotaLast, in_flight>>
domainVars == <<checkin_repository, redis, domain_user, domLast>>
schedVars == <<running_tasks, live, counts>>
reportVars == <<weekly_reports, pending, reportLast>>
providerVars == <<translations, rate_limiter>>
registryVars == <<jobs, scheduler, engine>>
vars == <<now, checkinVars, quotaVars, domainVars, schedVars, reportVars,
          providerVars, registryVars>>

---------------------------------------------------------------------------
(* Bounds of the model *)
MaxCheckins == 4
MaxTime == 3
MaxSends == 2
TicksPerDay == 2
MaxRequests == 7
MaxDomainCheckins == 2
MaxScheduled == 4
MaxFires == 3
MaxReports == 3
MaxPending == 2

(* Program constants *)
SendTick == 1           \* settings.checkin_times[0] = "09:00" within the day
WeeklyReportDay == 0    \* settings.weekly_report_day (0 = Monday)

None == "none"
NoScore == <<0, 0>>     \* an absent (NULL) score
NoTime == -1            \* an absent (NULL) timestamp
NoWeek == -1            \* an omitted week_start argument

(* ids of the jobs TaskScheduler._setup_jobs registers (two of them) *)
JobIds == {"schedule_daily_checkins", "send_pending_checkins"}

---------------------------------------------------------------------------
(* Content of the users / children tables (fixed during a run) *)
UserSeq == <<"u1", "u2", "u3">>
UserIds == {"u1", "u2", "u3"}
IsActive == [u \in UserIds |-> u \in {"u1", "u2"}]
ChildrenSeq == [u \in UserIds |->
                  CASE u = "u1" -> <<"c1", "c2">>
                    [] u = "u2" -> <<>>
                    [] OTHER    -> <<"c3">>]
ChildIds == {"c1", "c2", "c3"}
ParentId == [c \in ChildIds |-> IF c = "c3" THEN "u3" ELSE "u1"]

CheckinTypes == {"DAILY", "WEEKLY"}

---------------------------------------------------------------------------
(* Rational numbers <<num, den>> with den > 0 *)
Rat(n, d) == <<n, d>>
RatLeq(a, b) == a[1] * b[2] <= b[1] * a[2]
RatLess(a, b) == a[1] * b[2] < b[1] * a[2]
InUnitRange(m) == RatLeq(Rat(-1, 1), m) /\ RatLeq(m, Rat(1, 1))

---------------------------------------------------------------------------
(* CheckinService._get_next_checkin_time *)
Weekday(t) == (t \div TicksPerDay) % 7

(* the send time of the day of t, whether it has passed or not (a faulty
   variant) *)
NextCheckinTimeOfToday(checkin_type, t) ==
    (t \div TicksPerDay) * TicksPerDay + SendTick

NextCheckinTime(checkin_type, t) ==
    IF checkin_type = "DAILY"
    THEN LET scheduled_time == (t \div TicksPerDay) * TicksPerDay + SendTick
         IN  IF scheduled_time <= t THEN scheduled_time + TicksPerDay
                                    ELSE scheduled_time
    ELSE IF checkin_type = "WEEKLY"
    THEN LET d == (WeeklyReportDay - Weekday(t)) % 7
             days_until_target == IF d = 0 THEN 7 ELSE d
         IN  t + days_until_target * TicksPerDay
    ELSE t + TicksPerDay

(* Row built by CheckinService.create_scheduled_checkin *)
NewCheckin(user_id, child_id, checkin_type, scheduled_at) ==
    [user_id |-> user_id, child_id |-> child_id, checkin_type |-> checkin_type,
     scheduled_at |-> scheduled_at, is_completed |-> FALSE,
     response_text |-> None, detected_emotions |-> {}, mood_score |-> NoScore,
     completed_at |-> NoTime]

(* a create_scheduled_checkin that takes any child (a faulty variant) *)
CreateValidAlways(user_id, child_id) == TRUE

(* The validation of create_scheduled_checkin: the user exists and the child,
   when given, exists and belongs to the user *)
CreateValid(user_id, child_id) ==
    /\ user_id \in UserIds
    /\ child_id # None => (child_id \in ChildIds /\ ParentId[child_id] = user_id)

CreateScheduledCheckinRow(tbl, user_id, child_id, checkin_type, scheduled_at, t) ==
    Append(tbl, NewCheckin(user_id, child_id, checkin_type,
                           IF scheduled_at = None
                           THEN NextCheckinTime(checkin_type, t)
                           ELSE scheduled_at))

---------------------------------------------------------------------------
(* CheckinService.schedule_daily_checkins: the fan-out over the active users *)

(* rows the "existing pending daily check-in" query selects for a user *)
ExistingDaily(tbl, user_id) ==
    {i \in 1..Len(tbl) : /\ tbl[i].user_id = user_id
                         /\ tbl[i].checkin_type = "DAILY"
                         /\ ~tbl[i].is_completed}

RECURSIVE CreateForChildren(_, _, _, _)
CreateForChildren(tbl, user_id, kids, t) ==
    IF kids = <<>> THEN tbl
    ELSE CreateForChildren(
             CreateScheduledCheckinRow(tbl, user_id, Head(kids), "DAILY", None, t),
             user_id, Tail(kids), t)

(* The loop body without the "existing pending daily check-in" query
   (a faulty variant) *)
ScheduleForUserNoExistingCheck(tbl, user_id, t) ==
    IF ChildrenSeq[user_id] # <<>>
    THEN CreateForChildren(tbl, user_id, ChildrenSeq[user_id], t)
    ELSE CreateScheduledCheckinRow(tbl, user_id, None, "DAILY", None, t)

(* One iteration of the loop over users.  scalar_one_or_none returns the row
   when there is one (the user is skipped) and raises MultipleResultsFound
   when there are several (caught by the per-user handler: skipped too). *)
ScheduleForUser(tbl, user_id, t) ==
    IF ExistingDaily(tbl, user_id) # {} THEN tbl
    ELSE IF ChildrenSeq[user_id] # <<>>
         THEN CreateForChildren(tbl, user_id, ChildrenSeq[user_id], t)
         ELSE CreateScheduledCheckinRow(tbl, user_id, None, "DAILY", None, t)

RECURSIVE ScheduleFrom(_, _, _)
ScheduleFrom(tbl, remaining, t) ==
    IF remaining = <<>> THEN tbl
    ELSE ScheduleFrom(
             IF IsActive[Head(remaining)]
             THEN ScheduleForUser(tbl, Head(remaining), t)
             ELSE tbl,
             Tail(remaining), t)

ScheduleDailyResult(tbl, t) == ScheduleFrom(tbl, UserSeq, t)

---------------------------------------------------------------------------
(* CheckinService.get_pending_checkins: the uncompleted rows scheduled at or
   before the cutoff, ordered by scheduled_at (rows of equal scheduled_at in
   id order) *)
Range(f) == {f[i] : i \in DOMAIN f}

PendingIds(tbl, before) ==
    {i \in 1..Len(tbl) : ~tbl[i].is_completed /\ tbl[i].scheduled_at <= before}

(* the rows in id order, whatever their scheduled_at (a faulty variant) *)
RECURSIVE OrderById(_, _)
OrderById(tbl, ids) ==
    IF ids = {} THEN <<>>
    ELSE LET first == CHOOSE i \in ids : \A j \in ids : i <= j
         IN  <<first>> \o OrderById(tbl, ids \ {first})

RECURSIVE OrderByScheduledAt(_, _)
OrderByScheduledAt(tbl, ids) ==
    IF ids = {} THEN <<>>
    ELSE LET first == CHOOSE i \in ids :
                        \A j \in ids :
                           \/ tbl[i].scheduled_at < tbl[j].scheduled_at
                           \/ (tbl[i].scheduled_at = tbl[j].scheduled_at /\ i <= j)
         IN  <<first>> \o OrderByScheduledAt(tbl, ids \ {first})

GetPendingCheckins(tbl, before) == OrderByScheduledAt(tbl, PendingIds(tbl, before))

---------------------------------------------------------------------------
(* CheckinService._analyze_checkin_response.  A response text is modelled by
   the set of lexicon words that occur in it as substrings. *)
positive_words == {"happy", "good", "great", "wonderful", "excited", "proud", "joyful"}
negative_words == {"sad", "angry", "frustrated", "upset", "worried", "scared", "difficult"}

Texts ==
    { {},                               \* "we went for a walk"
      {"happy"},                        \* "she was happy"
      {"angry"},                        \* "He was very angry and threw his toys"
      {"joyful", "joy"},                \* "a joyful day"
      {"sad", "worried", "good"} }      \* "sad and worried, then good"

DetectedEmotions(text) ==
    (IF text \cap {"happy", "joy", "excited", "proud"} # {} THEN {"happy"} ELSE {})
    \cup (IF text \cap {"sad", "disappointed", "down"} # {} THEN {"sad"} ELSE {})
    \cup (IF text \cap {"angry", "frustrated", "mad"} # {} THEN {"angry"} ELSE {})
    \cup (IF text \cap {"worried", "anxious", "scared"} # {} THEN {"anxious"} ELSE {})

(* mood_score = (p - n) / (p + n + 1), then the value returned is
   mood_score_5 = ((mood_score + 1) / 2) * 4 + 1 = 2 * mood_score + 3 *)
MoodScore5(text) ==
    LET positive_count == Cardinality(text \cap positive_words)
        negative_count == Cardinality(text \cap negative_words)
        mood_score == IF positive_count = 0 /\ negative_count = 0
                      THEN Rat(0, 1)
                      ELSE Rat(positive_count - negative_count,
                               positive_count + negative_count + 1)
    IN  Rat(2 * mood_score[1] + 3 * mood_score[2], mood_score[2])

AnalyzeCheckinResponse(text) ==
    [emotions |-> DetectedEmotions(text), mood_score |-> MoodScore5(text)]

(* ck_mood_score_range of the checkins table *)
CkMoodScoreRange(m) == m = NoScore \/ InUnitRange(m)

---------------------------------------------------------------------------
(* Days: date.today() of a tick *)
Today(t) == t \div TicksPerDay
NoDate == -1            \* last_request_date IS NULL

(* UserService.check_daily_limit / increment_request_count on the row of a
   user of the FREE tier *)
FreeTierDailyLimit == 5
PremiumTierDailyLimit == 50
DailyLimit(subscription_status) ==
    IF subscription_status = "FREE" THEN FreeTierDailyLimit
                                    ELSE PremiumTierDailyLimit

(* check_daily_limit without the new-day reset (a faulty variant) *)
ResetIfNewDayNever(user, today) == user

(* "Reset counter if new day" *)
ResetIfNewDay(user, today) ==
    IF user.last_request_date # today
    THEN [user EXCEPT !.daily_requests_count = 0, !.last_request_date = today]
    ELSE user

CheckDailyLimit(user, today) ==
    LET u == ResetIfNewDay(user, today) IN
    [raised |-> u.daily_requests_count >= DailyLimit(u.subscription_status),
     user   |-> u]

(* an increment that leaves the counter as it is (a faulty variant) *)
UserServiceIncrementRequestCountNever(user, today) == user

UserServiceIncrementRequestCount(user, today) ==
    IF user.last_request_date # today
    THEN [user EXCEPT !.daily_requests_count = 1, !.last_request_date = today]
    ELSE [user EXCEPT !.daily_requests_count = @ + 1]

---------------------------------------------------------------------------
(* Domain stack: the User aggregate's request counter *)
SubscriptionPlan ==
    [free    |-> [daily_translation_limit |-> 10, daily_checkin_limit |-> 3,
                  weekly_reports |-> FALSE],
     premium |-> [daily_translation_limit |-> 100, daily_checkin_limit |-> 20,
                  weekly_reports |-> TRUE]]

(* plans of the users of the domain stack *)
PlanOf == [u \in UserIds |-> IF u = "u3" THEN "premium" ELSE "free"]

CanMakeRequest(user, request_type, today) ==
    LET u == IF user.last_request_date # today
             THEN [user EXCEPT !.daily_requests_count = 0,
                               !.last_request_date = today]
             ELSE user
        limit == IF request_type = "translation"
                 THEN SubscriptionPlan[u.plan].daily_translation_limit
                 ELSE IF request_type = "checkin"
                 THEN SubscriptionPlan[u.plan].daily_checkin_limit
                 ELSE 10
    IN  [allowed |-> u.daily_requests_count < limit, user |-> u]

UserIncrementRequestCount(user, today) ==
    LET u == IF user.last_request_date # today
             THEN [user EXCEPT !.daily_requests_count = 0,
                               !.last_request_date = today]
             ELSE user
    IN  [u EXCEPT !.daily_requests_count = @ + 1]

---------------------------------------------------------------------------
(* MoodScore.from_emotions.  An insight is [emotion, intensity (1..5),
   confidence (in tenths)]; EmotionTranslation.calculate_mood_score weighs an
   emotion by confidence * intensity / 5, here in units of 1/50. *)
positive_emotions == {"joy", "happiness", "excitement", "love", "gratitude",
                      "contentment", "pride", "hope", "amusement", "relief"}
negative_emotions == {"sadness", "anger", "fear", "disgust", "frustration",
                      "disappointment", "anxiety", "guilt", "shame", "loneliness"}

(* round(x, 2) of x = a / b, b > 0, as a number of hundredths (ties to even) *)
RoundHundredths(a, b) ==
    LET q == (100 * a) \div b
        r == 100 * a - q * b
    IN  IF 2 * r < b THEN q
        ELSE IF 2 * r > b THEN q + 1
        ELSE IF q % 2 = 0 THEN q ELSE q + 1

(* the dict comprehension keeps, per emotion, the weight of its last insight *)
EmotionsDict(insights) ==
    [e \in {insights[i].emotion : i \in 1..Len(insights)} |->
        LET last == CHOOSE i \in 1..Len(insights) :
                        /\ insights[i].emotion = e
                        /\ \A j \in (i + 1)..Len(insights) : insights[j].emotion # e
        IN  insights[last].confidence * insights[last].intensity]

RECURSIVE SumOver(_, _)
SumOver(f, keys) ==
    IF keys = {} THEN 0
    ELSE LET k == CHOOSE x \in keys : TRUE IN f[k] + SumOver(f, keys \ {k})

(* the value handed to MoodScore(...); __post_init__ raises ValueError when it
   is outside [-1, 1] *)
FromEmotions(emotions) ==
    LET positive_score == SumOver(emotions, DOMAIN emotions \cap positive_emotions)
        negative_score == SumOver(emotions, DOMAIN emotions \cap negative_emotions)
        total_weight == positive_score + negative_score
    IN  IF DOMAIN emotions = {} \/ total_weight = 0 THEN Rat(0, 1)
        ELSE Rat(RoundHundredths(positive_score - negative_score, total_weight), 100)

MoodScoreValid(m) == InUnitRange(m)

(* EmotionTranslation.calculate_mood_score: without insights the attribute
   mood_score stays None *)
CalculateMoodScore(insights) ==
    IF insights = <<>> THEN NoScore ELSE FromEmotions(EmotionsDict(insights))

---------------------------------------------------------------------------
(* EmotionTranslatorService.translate_emotion *)

(* replies of the provider to generate_completion *)
Replies ==
    { [kind |-> "error", insights |-> <<>>],
      [kind |-> "malformed", insights |-> <<>>],
      [kind |-> "ok", insights |-> <<>>],
      [kind |-> "ok", insights |-> <<[emotion |-> "joy", intensity |-> 4,
                                      confidence |-> 9]>>],
      [kind |-> "ok", insights |-> <<[emotion |-> "anger", intensity |-> 7,
                                      confidence |-> 8],
                                     [emotion |-> "joy", intensity |-> 2,
                                      confidence |-> 5]>>] }

(* a message: its first 100 characters and the rest *)
Messages == { [head |-> "I am happy", tail |-> ""],
              [head |-> "I hate school", tail |-> ""] }

DefaultAge == 7
ChildAge == [c \in ChildIds |-> IF c = "c1" THEN 9 ELSE IF c = "c2" THEN 15 ELSE 7]

GetCacheKey(message, age) == <<"emotion_translation", message.head, age, "en", "supportive">>

Clamp(i) == IF i < 1 THEN 1 ELSE IF i > 5 THEN 5 ELSE i

ParseClaudeResponse(reply) ==
    IF reply.kind = "malformed"
    THEN <<[emotion |-> "uncertain", intensity |-> 3, confidence |-> 3]>>
    ELSE [i \in 1..Len(reply.insights) |->
            [reply.insights[i] EXCEPT !.intensity = Clamp(@)]]

SerializeTranslation(insights, mood_score) ==
    [insights |-> insights, mood_score |-> mood_score]

(* RedisService.set(key, value, expire_seconds=None): a call with another
   keyword raises TypeError *)
RedisSetParameters == {"key", "value", "expire_seconds"}
RedisSet(cache, key, value, keyword) ==
    IF keyword \in RedisSetParameters
    THEN [raised |-> FALSE,
          cache |-> {e \in cache : e.key # key} \cup {[key |-> key, value |-> value]}]
    ELSE [raised |-> TRUE, cache |-> cache]

(* the call: its outcome, what it returns and what it leaves in the cache
   and in the user repository.  connected tells whether the cache store can
   be reached: RedisService.get raises CacheError when it cannot, and the
   lookup stands before the try block of translate_emotion *)
TranslateEmotionResult(user, cache, message, child_id, use_cache, connected, reply, today) ==
    LET check     == CanMakeRequest(user, "translation", today)
        age       == IF child_id = None THEN DefaultAge ELSE ChildAge[child_id]
        cache_key == GetCacheKey(message, age)
        cached    == {e \in cache : e.key = cache_key}
        failed(exc) == [result |-> exc, cache_hit |-> FALSE, insights |-> <<>>,
                        mood_score |-> NoScore, processing_time_ms |-> 0,
                        cache |-> cache, user |-> user]
    IN  IF ~check.allowed THEN failed("RateLimitExceededException")
        ELSE IF use_cache /\ ~connected THEN failed("CacheError")
        ELSE IF use_cache /\ cached # {}
        THEN LET data == (CHOOSE e \in cached : TRUE).value IN
             [result |-> "ok", cache_hit |-> TRUE, insights |-> data.insights,
              mood_score |-> data.mood_score, processing_time_ms |-> 0,
              cache |-> cache, user |-> user]
        ELSE IF reply.kind = "error" THEN failed("EmotionTranslationException")
        ELSE LET insights == ParseClaudeResponse(reply)
                 mood     == CalculateMoodScore(insights)
                 write    == IF use_cache
                             THEN RedisSet(cache, cache_key,
                                           SerializeTranslation(insights, mood),
                                           "expire")
                             ELSE [raised |-> FALSE, cache |-> cache]
             IN  IF (mood # NoScore /\ ~MoodScoreValid(mood)) \/ write.raised
                 THEN failed("EmotionTranslationException")
                 ELSE [result |-> "ok", cache_hit |-> FALSE, insights |-> insights,
                       mood_score |-> mood, processing_time_ms |-> 1,
                       cache |-> write.cache,
                       user |-> UserIncrementRequestCount(check.user, today)]

---------------------------------------------------------------------------
(* Domain stack: the CheckIn entity *)
(* Age.to_age_group *)
ToAgeGroup(age) ==
    IF age <= 2 THEN "toddler"
    ELSE IF age <= 5 THEN "preschooler"
    ELSE IF age <= 8 THEN "early_school"
    ELSE IF age <= 12 THEN "middle_school"
    ELSE "teenager"

(* CheckInQuestionBank.QUESTIONS: per category and group of the bank, the
   age_groups of the questions listed there, in order *)
QUESTIONS ==
    [mood |->
        [toddler       |-> << {"toddler"}, {"toddler", "preschooler"} >>,
         preschooler   |-> << {"preschooler", "early_school"},
                              {"preschooler", "early_school", "middle_school"} >>,
         early_school  |-> << {"early_school", "middle_school", "teenager"},
                              {"early_school", "middle_school", "teenager"} >>,
         middle_school |-> << {"middle_school", "teenager"} >>,
         teenager      |-> << {"teenager"} >>],
     behavior |->
        [toddler       |-> << {"toddler", "preschooler"} >>,
         preschooler   |-> << {"preschooler", "early_school"} >>,
         early_school  |-> << {"early_school", "middle_school"} >>,
         middle_school |-> << {"middle_school", "teenager"} >>],
     social |->
        [preschooler   |-> << {"preschooler", "early_school"} >>,
         early_school  |-> << {"early_school", "middle_school"} >>,
         middle_school |-> << {"middle_school", "teenager"} >>]]

Categories == {"mood", "behavior", "social"}

(* CheckInQuestionBank.get_appropriate_questions (count = 1).  A group of the
   bank is read when its name is the age group (the second operand of the
   "or" compares the name of the age group with lists and is never true);
   every question of it whose age_groups hold the age group is taken.  Only
   the category "mood" has the general question as a fallback. *)
GetAppropriateQuestions(age, category) ==
    LET age_group == ToAgeGroup(age)
        category_questions == IF category \in DOMAIN QUESTIONS
                              THEN QUESTIONS[category] ELSE <<>>
        questions == IF age_group \in DOMAIN category_questions
                     THEN category_questions[age_group] ELSE <<>>
        appropriate_questions ==
            [i \in 1..Len(SelectSeq(questions, LAMBDA q : age_group \in q)) |->
                [category |-> category, group |-> age_group,
                 age_groups |-> SelectSeq(questions,
                                          LAMBDA q : age_group \in q)[i]]]
    IN  IF appropriate_questions = <<>> /\ category = "mood"
        THEN << [category |-> "mood", group |-> "general",
                 age_groups |-> {age_group}] >>
        ELSE SubSeq(appropriate_questions, 1,
                    IF Len(appropriate_questions) < 1
                    THEN Len(appropriate_questions) ELSE 1)

NewCheckIn(user_id, child_id, scheduled_at, question) ==
    [user_id |-> user_id, child_id |-> child_id, question |-> question,
     scheduled_at |-> scheduled_at,
     response_text |-> None, detected_emotions |-> <<>>, mood_score |-> NoScore,
     completed_at |-> NoTime]

(* a property is_completed that is never true (a faulty variant) *)
IsCompletedNever(checkin) == FALSE

(* CheckIn.is_completed *)
IsCompleted(checkin) == checkin.completed_at # NoTime

(* the status of a check-in: it is Scheduled until complete() or skip() has
   set completed_at; skip() leaves no mood score, complete() always sets one *)
Status(checkin) ==
    IF checkin.completed_at = NoTime THEN "Scheduled"
    ELSE IF checkin.mood_score = NoScore THEN "Skipped"
    ELSE "Completed"

CheckInComplete(checkin, response_text, detected_emotions, mood_score, t) ==
    IF IsCompleted(checkin) THEN [raised |-> TRUE, checkin |-> checkin]
    ELSE [raised |-> FALSE,
          checkin |-> [checkin EXCEPT !.response_text = response_text,
                                      !.detected_emotions = detected_emotions,
                                      !.mood_score = mood_score,
                                      !.completed_at = t]]

SkippedText(reason) == "[SKIPPED] " \o reason

(* a skip that records a neutral score (a faulty variant) *)
CheckInSkipScored(checkin, reason, t) ==
    [raised |-> checkin.completed_at # NoTime,
     checkin |-> [checkin EXCEPT !.response_text = SkippedText(reason),
                                 !.completed_at = t,
                                 !.mood_score = Rat(0, 1)]]

(* CheckIn.skip *)
CheckInSkip(checkin, reason, t) ==
    IF IsCompleted(checkin) THEN [raised |-> TRUE, checkin |-> checkin]
    ELSE [raised |-> FALSE,
          checkin |-> [checkin EXCEPT !.response_text = SkippedText(reason),
                                      !.completed_at = t]]

---------------------------------------------------------------------------
(* Application stack: ClaudeService.analyze_child_emotions and its RateLimiter *)

(* settings.anthropic.requests_per_minute (50) and requests_per_day (1000),
   scaled down; the minute window is shorter than a tick, the day window is
   TicksPerDay ticks *)
RequestsPerMinute == 2
RequestsPerDay == 2
MaxTranslations == 1
MaxAttempts == 3

NoRetryAfter == 0       \* no retry_after on the exception (None or no attribute)

(* what the provider call does: it returns a well-formed reply ("ok"), a
   reply that is no JSON or lacks a required field ("malformed"), or fails
   with a status error or a connection error *)
ProviderEvents == {"ok", "malformed", "http_429", "http_5xx", "connect_error"}

(* the class a failure of messages.create arrives as in analyze_child_emotions:
   an httpx exception, which the first two handlers name, or an exception of
   the client library *)
ArrivesAs == {"httpx", "anthropic"}

(* the two lists of the RateLimiter, and as history the times of all the
   calls it has admitted and the time and outcome of its last call *)
NewRateLimiter ==
    [minute_requests |-> <<>>, daily_requests |-> <<>>,
     admitted |-> <<>>, last |-> [t |-> NoTime, admitted |-> FALSE]]

(* a cleaning that keeps a request for one tick more than the window (a
   faulty variant) *)
RECURSIVE YoungerOrEqual(_, _, _)
YoungerOrEqual(times, t, window) ==
    IF times = <<>> THEN <<>>
    ELSE IF t - Head(times) <= window
         THEN <<Head(times)>> \o YoungerOrEqual(Tail(times), t, window)
         ELSE YoungerOrEqual(Tail(times), t, window)

RECURSIVE Younger(_, _, _)
Younger(times, t, window) ==
    IF times = <<>> THEN <<>>
    ELSE IF t - Head(times) < window
         THEN <<Head(times)>> \o Younger(Tail(times), t, window)
         ELSE Younger(Tail(times), t, window)

(* RateLimiter.check_limits *)
CheckLimits(limiter, t) ==
    LET minute_requests == Younger(limiter.minute_requests, t, 1)
        daily_requests  == Younger(limiter.daily_requests, t, TicksPerDay)
        cleaned == [limiter EXCEPT !.minute_requests = minute_requests,
                                   !.daily_requests = daily_requests,
                                   !.last = [t |-> t, admitted |-> FALSE]]
    IN  IF Len(minute_requests) >= RequestsPerMinute
        THEN [raised |-> "RateLimitExceededError", retry_after |-> 60,
              limiter |-> cleaned]
        ELSE IF Len(daily_requests) >= RequestsPerDay
        THEN [raised |-> "RateLimitExceededError", retry_after |-> 86400,
              limiter |-> cleaned]
        ELSE [raised |-> None, retry_after |-> NoRetryAfter,
              limiter |-> [minute_requests |-> Append(minute_requests, t),
                           daily_requests |-> Append(daily_requests, t),
                           admitted |-> Append(limiter.admitted, t),
                           last |-> [t |-> t, admitted |-> TRUE]]]

(* keyword parameters of FamilyEmotionsException.__init__ *)
ExceptionParameters == {"error_code", "details"}

(* RateLimitExceededError(message, retry_after=None, **kwargs): the other
   keywords go to the base class, which raises TypeError for one it has not *)
NewRateLimitExceededError(retry_after, kwargs) ==
    IF kwargs \subseteq ExceptionParameters
    THEN [raised |-> "RateLimitExceededError", retry_after |-> retry_after]
    ELSE [raised |-> "TypeError", retry_after |-> NoRetryAfter]

(* ClaudeService._parse_claude_response raises ExternalServiceError for a
   reply without JSON or without the required structure *)
ClaudeParseRaises(event) == event = "malformed"

(* ClaudeService.analyze_child_emotions: what it raises (None when it
   returns) and the state it leaves the limiter in.  Whatever the try block
   raises that is no httpx exception, the limiter's error included, ends in
   the last handler, which raises ExternalServiceError. *)
AnalyzeChildEmotions(limiter, event, arrives_as, t) ==
    LET check == CheckLimits(limiter, t)
        unexpected == [raised |-> "ExternalServiceError",
                       retry_after |-> NoRetryAfter]
        outcome ==
            IF check.raised # None THEN unexpected
            ELSE IF event = "ok" THEN [raised |-> None, retry_after |-> NoRetryAfter]
            ELSE IF ClaudeParseRaises(event) THEN unexpected
            ELSE IF arrives_as # "httpx" THEN unexpected
            ELSE IF event = "http_429"
            THEN NewRateLimitExceededError(NoRetryAfter,
                                           {"service_name", "status_code"})
            ELSE [raised |-> "ExternalServiceError", retry_after |-> NoRetryAfter]
    IN  [raised |-> outcome.raised, retry_after |-> outcome.retry_after,
         limited |-> check.raised # None, limiter |-> check.limiter]

(* Row of emotion_translations; attempts counts the runs of
   _process_translation on it *)
NewTranslation ==
    [user_id |-> "u1", child_id |-> None, created_at |-> NoTime,
     status |-> "PENDING", error_message |-> None, attempts |-> 0]

(* EmotionService._process_translation, given what analyze_child_emotions
   did: the row it leaves and what it raises *)
ProcessTranslation(translation, analysis) ==
    LET failed(message) == [translation EXCEPT !.status = "FAILED",
                                               !.error_message = message,
                                               !.attempts = @ + 1]
    IN  IF analysis.raised = None
        THEN [raised |-> None, retry_after |-> NoRetryAfter,
              translation |-> [translation EXCEPT !.status = "COMPLETED",
                                                  !.attempts = @ + 1]]
        ELSE IF analysis.raised = "RateLimitExceededError"
        THEN [raised |-> "RateLimitExceededError",
              retry_after |-> analysis.retry_after,
              translation |->
                  failed("Rate limit exceeded. Please try again later.")]
        ELSE IF analysis.raised = "ExternalServiceError"
        THEN [raised |-> "ExternalServiceError", retry_after |-> NoRetryAfter,
              translation |->
                  failed("AI service temporarily unavailable. Please try again later.")]
        ELSE [raised |-> "ExternalServiceError", retry_after |-> NoRetryAfter,
              translation |->
                  failed("An unexpected error occurred. Please try again.")]

(* the outer handlers of create_emotion_translation: the three known errors
   are re-raised, anything else becomes ExternalServiceError *)
CreateEmotionTranslationRaises(raised) ==
    IF raised \in {None, "RateLimitExceededError", "ResourceNotFoundError",
                   "BusinessLogicError"}
    THEN raised ELSE "ExternalServiceError"

(* a retry that takes a translation of any status (a faulty variant) *)
CanRetryAlways(translation) == TRUE

(* "Can only retry failed translations" *)
CanRetry(translation) == translation.status = "FAILED"

---------------------------------------------------------------------------
(* TaskScheduler: the job registry (the job store of the AsyncIOScheduler).
   A job is [id, func]; the functions of the jobs of _setup_jobs are the
   callbacks of the same name. *)
RegistryIds == JobIds \cup {"custom_job"}
Funcs == JobIds \cup {"first_definition", "second_definition"}

(* a scheduler without replace_existing (a faulty variant) *)
ReplaceExistingOff == FALSE

(* "replace_existing=True" of every add_job call *)
ReplaceExisting == TRUE

JobIndex(store, job_id) == {i \in 1..Len(store) : store[i].id = job_id}

(* AsyncIOScheduler.add_job: a job of an id the store holds is replaced when
   replace_existing is set and refused with ConflictingIdError otherwise *)
StoreAddJob(store, job_id, func, replace_existing) ==
    IF JobIndex(store, job_id) = {}
    THEN [raised |-> None, store |-> Append(store, [id |-> job_id, func |-> func])]
    ELSE IF replace_existing
    THEN [raised |-> None,
          store |-> [i \in 1..Len(store) |->
                        IF store[i].id = job_id
                        THEN [id |-> job_id, func |-> func] ELSE store[i]]]
    ELSE [raised |-> "ConflictingIdError", store |-> store]

(* AsyncIOScheduler.remove_job: JobLookupError for an id the store has not *)
StoreRemoveJob(store, job_id) ==
    IF JobIndex(store, job_id) = {}
    THEN [raised |-> "JobLookupError", store |-> store]
    ELSE [raised |-> None,
          store |-> SelectSeq(store, LAMBDA job : job.id # job_id)]

(* TaskScheduler._setup_jobs on the empty store *)
SetupJobs ==
    StoreAddJob(
        StoreAddJob(<<>>, "schedule_daily_checkins", "schedule_daily_checkins",
                    ReplaceExisting).store,
        "send_pending_checkins", "send_pending_checkins", ReplaceExisting).store

(* the trigger of a job fires only while the job is registered *)
Registered(store, task_name) ==
    \E i \in 1..Len(store) : store[i].id = task_name /\ store[i].func = task_name

---------------------------------------------------------------------------
(* The misfire handling of the AsyncIOScheduler for the jobs of _setup_jobs.
   Times are in units of 300 seconds. *)
MaxWall == 120
MaxGap == 100

(* misfire_grace_time of the jobs: 300 s and 600 s *)
MisfireGraceTime ==
    [j \in JobIds |-> IF j = "schedule_daily_checkins" THEN 1 ELSE 2]

(* CronTrigger(hour=8, minute=0): every day (288 units) from 08:00 (unit 96);
   IntervalTrigger(minutes=30): every 6 units from the start *)
TriggerPeriod ==
    [j \in JobIds |-> IF j = "schedule_daily_checkins" THEN 288 ELSE 6]
FirstRunTime ==
    [j \in JobIds |-> IF j = "schedule_daily_checkins" THEN 96 ELSE 6]

(* a scheduler that runs an occurrence however late it is (a faulty variant) *)
WithinGraceAlways(j, run_time, t) == TRUE

(* "difference > grace_time" of the executor: the occurrence is missed *)
WithinGrace(j, run_time, t) == t - run_time <= MisfireGraceTime[j]

(* the occurrences of job j due at time t, from its next_run_time on *)
DueRunTimes(j, next_run_time, t) ==
    {r \in next_run_time..t : (r - next_run_time) % TriggerPeriod[j] = 0}

Latest(run_times) == CHOOSE r \in run_times : \A q \in run_times : q <= r

(* the occurrences handed to the executor and those among them it runs.
   The jobs are added without coalesce, so the default of the scheduler
   decides whether the due occurrences are rolled into the latest one. *)
SubmittedRunTimes(j, next_run_time, t, coalesce) ==
    LET due == DueRunTimes(j, next_run_time, t)
    IN  IF due # {} /\ coalesce THEN {Latest(due)} ELSE due

ExecutedRunTimes(j, next_run_time, t, coalesce) ==
    {r \in SubmittedRunTimes(j, next_run_time, t, coalesce) : WithinGrace(j, r, t)}

(* the next occurrence after t *)
NextRunTime(j, next_run_time, t) ==
    LET due == DueRunTimes(j, next_run_time, t)
    IN  IF due = {} THEN next_run_time ELSE Latest(due) + TriggerPeriod[j]

---------------------------------------------------------------------------
Init ==
    /\ now = 0
    /\ checkins = <<>>
    /\ sent = <<>>
    /\ lastCall = [op |-> "init", result |-> "ok", mood_score |-> NoScore,
                   created |-> 0, target |-> 0,
                   pending |-> FALSE, response_text |-> {}, detected_emotions |-> {},
                    dispatched |-> <<>>]
    /\ users = [daily_requests_count |-> 0, last_request_date |-> NoDate,
                subscription_status |-> "FREE"]
    /\ served = [app |-> 0, domain |-> 0]
    /\ requested = 0
    /\ in_flight = 0
    /\ quotaLast = [op |-> "init", result |-> "ok", seq |-> 0, served_before |-> 0,
                    target |-> 0, provider |-> None, limited |-> FALSE,
                    retry_after |-> NoRetryAfter, analysis |-> None]
    /\ checkin_repository = <<>>
    /\ redis = {}
    /\ domain_user = [daily_requests_count |-> 0, last_request_date |-> NoDate,
                      plan |-> PlanOf["u1"]]
    /\ domLast = [op |-> "init", result |-> "ok", target |-> 0,
                  use_cache |-> FALSE, provider |-> "none", cache_hit |-> FALSE,
                  mood_score |-> NoScore, processing_time_ms |-> 0,
                  cache_written |-> FALSE, served_before |-> 0,
                  message |-> None]
    /\ running_tasks = [j \in JobIds |-> 0]
    /\ live = [j \in JobIds |-> {}]
    /\ counts = [j \in JobIds |->
                    [fired |-> 0, created |-> 0, skipped |-> 0, awaiting |-> 0,
                     failed |-> 0]]
    /\ weekly_reports = <<>>
    /\ pending = <<>>
    /\ reportLast = [op |-> "init", user_id |-> None, child_id |-> None,
                     week_start |-> NoWeek, result |-> "ok", returned |-> 0,
                     existed |-> FALSE, provider |-> None]
    /\ translations = <<>>
    /\ rate_limiter = NewRateLimiter
    /\ jobs = SetupJobs
    /\ scheduler = [op |-> "init", job_id |-> None, func |-> None,
                    raised |-> None, logged |-> None, before |-> SetupJobs,
                    added |-> [id \in RegistryIds |->
                                  IF id \in JobIds THEN id ELSE None]]
    /\ engine = [running |-> TRUE, stopped |-> FALSE,
                 wall |-> 0, next_run_time |-> FirstRunTime,
                 previous |-> 0,
                 due |-> [j \in JobIds |-> {}],
                 executed |-> [j \in JobIds |-> {}]]

(* Time passes.  A cache entry lives one hour, less than a tick; the
   history counters of the day start again at midnight. *)
Tick ==
    /\ now < MaxTime
    /\ now' = now + 1
    /\ redis' = {}
    /\ served' = IF Today(now + 1) # Today(now) THEN [app |-> 0, domain |-> 0]
                                                ELSE served
    /\ requested' = IF Today(now + 1) # Today(now) THEN 0 ELSE requested
    /\ UNCHANGED <<checkinVars, users, quotaLast, in_flight, checkin_repository,
                   domain_user, domLast, schedVars, reportVars,
                   providerVars, registryVars>>

(* CheckinService.create_scheduled_checkin *)
CreateScheduledCheckin(user_id, child_id, checkin_type) ==
    /\ Len(checkins) < MaxCheckins
    /\ IF CreateValid(user_id, child_id)
       THEN /\ checkins' = CreateScheduledCheckinRow(checkins, user_id, child_id,
                                                     checkin_type, None, now)
            /\ sent' = Append(sent, 0)
            /\ lastCall' = [op |-> "create", result |-> "ok",
                            mood_score |-> NoScore, created |-> 1, target |-> 0,
                            pending |-> FALSE, response_text |-> {}, detected_emotions |-> {},
                    dispatched |-> <<>>]
       ELSE /\ lastCall' = [op |-> "create", result |-> "BusinessLogicError",
                            mood_score |-> NoScore, created |-> 0, target |-> 0,
                            pending |-> FALSE, response_text |-> {}, detected_emotions |-> {},
                    dispatched |-> <<>>]
            /\ UNCHANGED <<checkins, sent>>
    /\ UNCHANGED <<now, quotaVars, domainVars, schedVars, reportVars,
                   providerVars, registryVars>>

(* CheckinService.schedule_daily_checkins *)
ScheduleDailyCheckinsWork ==
    LET after == ScheduleDailyResult(checkins, now) IN
    /\ Len(after) <= MaxCheckins
    /\ checkins' = after
    /\ sent' = sent \o [i \in 1..(Len(after) - Len(checkins)) |-> 0]
    /\ lastCall' = [op |-> "fanout", result |-> "ok", mood_score |-> NoScore,
                    created |-> Len(after) - Len(checkins), target |-> 0,
                    pending |-> FALSE, response_text |-> {}, detected_emotions |-> {},
                    dispatched |-> <<>>]

ScheduleDailyCheckins ==
    /\ ScheduleDailyCheckinsWork
    /\ UNCHANGED <<now, quotaVars, domainVars, schedVars, reportVars,
                   providerVars, registryVars>>

(* TaskScheduler.send_pending_checkins._run_task: every pending check-in is
   sent, in the order get_pending_checkins returns; a send that raises is
   logged and the loop goes on (failed is the id whose send raises, 0 if none does) *)
SendPendingCheckinsWork(failed) ==
    LET pending_checkins == GetPendingCheckins(checkins, now) IN
    /\ pending_checkins # <<>>
    /\ failed \in Range(pending_checkins) \cup {0}
    /\ \A k \in 1..Len(pending_checkins) : sent[pending_checkins[k]] < MaxSends
    /\ sent' = [i \in 1..Len(sent) |->
                  IF i \in Range(pending_checkins) /\ i # failed
                  THEN sent[i] + 1 ELSE sent[i]]
    /\ lastCall' = [op |-> "send", result |-> "ok", mood_score |-> NoScore,
                    created |-> 0, target |-> 0,
                    pending |-> FALSE, response_text |-> {}, detected_emotions |-> {},
                    dispatched |-> pending_checkins]
    /\ UNCHANGED checkins

SendPendingCheckins(failed) ==
    /\ SendPendingCheckinsWork(failed)
    /\ UNCHANGED <<now, quotaVars, domainVars, schedVars, reportVars,
                   providerVars, registryVars>>

(* CheckinService.complete_checkin.  constrained tells whether the checkins
   table carries ck_mood_score_range (the schema of the migration) or not (the
   tables Database.create_tables makes from the ORM models, which declare no
   check constraint); tracked tells whether the track_event call that follows
   the commit returns or raises. *)
CompleteCheckin(checkin_id, response_text, constrained, tracked) ==
    LET call(result, mood_score, pending_before, emotions) ==
            [op |-> "complete", result |-> result, mood_score |-> mood_score,
             created |-> 0, target |-> checkin_id, pending |-> pending_before,
             response_text |-> response_text, detected_emotions |-> emotions,
             dispatched |-> <<>>]
    IN
    /\ IF checkin_id \notin 1..Len(checkins) \/ checkins[checkin_id].is_completed
       THEN \* ResourceNotFoundError or BusinessLogicError, raised inside the
            \* try: the handler wraps either into BusinessLogicError
            /\ lastCall' = call("BusinessLogicError", NoScore, FALSE, {})
            /\ UNCHANGED checkins
       ELSE LET emotion_analysis == AnalyzeCheckinResponse(response_text)
                row == [checkins[checkin_id] EXCEPT
                          !.response_text = response_text,
                          !.detected_emotions = emotion_analysis.emotions,
                          !.mood_score = emotion_analysis.mood_score,
                          !.is_completed = TRUE,
                          !.completed_at = now]
            IN  IF ~constrained \/ CkMoodScoreRange(row.mood_score)
                THEN \* the commit succeeds; an exception of track_event is
                     \* wrapped into BusinessLogicError after it
                     /\ checkins' = [checkins EXCEPT ![checkin_id] = row]
                     /\ lastCall' = call(IF tracked THEN "ok"
                                                    ELSE "BusinessLogicError",
                                         row.mood_score, TRUE,
                                         row.detected_emotions)
                ELSE \* the commit violates ck_mood_score_range: IntegrityError,
                     \* wrapped into BusinessLogicError; nothing is persisted
                     /\ lastCall' = call("BusinessLogicError", row.mood_score,
                                         TRUE, row.detected_emotions)
                     /\ UNCHANGED checkins
    /\ UNCHANGED <<now, sent, quotaVars, domainVars, schedVars, reportVars,
                   providerVars, registryVars>>

---------------------------------------------------------------------------
(* EmotionService.create_emotion_translation for the user u1.  outcome is
   what _process_translation ends with: analyze_child_emotions returns, or
   raises and the record is marked FAILED (every failure of the provider call
   leaves _process_translation as ExternalServiceError). *)
CreateEmotionTranslation(outcome) ==
    LET today == Today(now)
        check == CheckDailyLimit(users, today)
        result == IF check.raised THEN "RateLimitExceededError" ELSE outcome
    IN
    /\ requested < MaxRequests
    /\ requested' = requested + 1
    /\ users' = IF check.raised THEN users
                ELSE IF outcome = "ok"
                THEN UserServiceIncrementRequestCount(check.user, today)
                ELSE check.user
    /\ served' = IF result = "ok" THEN [served EXCEPT !.app = @ + 1] ELSE served
    /\ quotaLast' = [op |-> "translate", result |-> result,
                     seq |-> requested + 1, served_before |-> served.app,
                     target |-> 0, provider |-> None, limited |-> FALSE,
                     retry_after |-> NoRetryAfter, analysis |-> None]
    /\ UNCHANGED <<now, in_flight, checkinVars, domainVars, schedVars, reportVars,
                   providerVars, registryVars>>

---------------------------------------------------------------------------
(* EmotionService.create_emotion_translation for the user u1, with the
   provider call of ClaudeService.analyze_child_emotions: event is what the
   provider does, arrives_as the class a failure of it arrives as.  tracked
   says whether analytics_service.track_event, awaited between the commit of
   the new row and _process_translation, returns; when it raises, the handler
   of create_emotion_translation awaits track_event once more, and the call
   ends with the error of that. *)
CreateEmotionTranslationVia(event, arrives_as, tracked) ==
    LET today == Today(now)
        check == CheckDailyLimit(users, today)
        analysis == AnalyzeChildEmotions(rate_limiter, event, arrives_as, now)
        processed == ProcessTranslation([NewTranslation EXCEPT !.created_at = now],
                                        analysis)
        raised == CreateEmotionTranslationRaises(processed.raised)
    IN
    /\ requested < MaxRequests
    /\ Len(translations) < MaxTranslations
    /\ requested' = requested + 1
    /\ IF check.raised
       THEN /\ quotaLast' = [op |-> "translate",
                             result |-> "RateLimitExceededError",
                             seq |-> requested + 1, served_before |-> served.app,
                             target |-> 0, provider |-> None, limited |-> FALSE,
                             retry_after |-> NoRetryAfter, analysis |-> None]
            /\ UNCHANGED <<users, served, translations, rate_limiter>>
       ELSE IF ~tracked
       THEN /\ translations' = Append(translations,
                                      [NewTranslation EXCEPT !.created_at = now])
            /\ users' = check.user
            /\ quotaLast' = [op |-> "translate", result |-> "Exception",
                             seq |-> requested + 1, served_before |-> served.app,
                             target |-> Len(translations) + 1, provider |-> None,
                             limited |-> FALSE, retry_after |-> NoRetryAfter,
                             analysis |-> None]
            /\ UNCHANGED <<served, rate_limiter>>
       ELSE /\ translations' = Append(translations, processed.translation)
            /\ rate_limiter' = analysis.limiter
            /\ users' = IF processed.raised = None
                        THEN UserServiceIncrementRequestCount(check.user, today)
                        ELSE check.user
            /\ served' = IF processed.raised = None
                         THEN [served EXCEPT !.app = @ + 1] ELSE served
            /\ quotaLast' = [op |-> "translate",
                             result |-> IF raised = None THEN "ok" ELSE raised,
                             seq |-> requested + 1, served_before |-> served.app,
                             target |-> Len(translations) + 1,
                             provider |-> IF analysis.limited THEN None ELSE event,
                             limited |-> analysis.limited,
                             retry_after |-> processed.retry_after,
                             analysis |-> analysis.raised]
    /\ UNCHANGED <<now, in_flight, checkinVars, domainVars, schedVars, reportVars,
                   registryVars>>

(* EmotionService.retry_failed_translation *)
RetryFailedTranslation(translation_id, event, arrives_as) ==
    LET today == Today(now)
        check == CheckDailyLimit(users, today)
        rejected(error) ==
            /\ quotaLast' = [op |-> "retry", result |-> error,
                             seq |-> requested, served_before |-> served.app,
                             target |-> translation_id, provider |-> None,
                             limited |-> FALSE, retry_after |-> NoRetryAfter,
                             analysis |-> None]
            /\ UNCHANGED <<users, served, translations, rate_limiter>>
    IN
    /\ IF translation_id \notin 1..Len(translations)
       THEN rejected("ResourceNotFoundError")
       ELSE IF ~CanRetry(translations[translation_id])
       THEN rejected("BusinessLogicError")
       ELSE IF check.raised
       THEN rejected("RateLimitExceededError")
       ELSE LET translation == [translations[translation_id] EXCEPT
                                   !.status = "PENDING",
                                   !.error_message = None]
                analysis == AnalyzeChildEmotions(rate_limiter, event,
                                                 arrives_as, now)
                processed == ProcessTranslation(translation, analysis)
            IN  /\ translation.attempts < MaxAttempts
                /\ translations' = [translations EXCEPT
                                       ![translation_id] = processed.translation]
                /\ rate_limiter' = analysis.limiter
                /\ users' = check.user
                /\ served' = IF processed.raised = None
                             THEN [served EXCEPT !.app = @ + 1] ELSE served
                /\ quotaLast' = [op |-> "retry",
                                 result |-> IF processed.raised = None THEN "ok"
                                            ELSE processed.raised,
                                 seq |-> requested, served_before |-> served.app,
                                 target |-> translation_id,
                                 provider |-> IF analysis.limited THEN None
                                              ELSE event,
                                 limited |-> analysis.limited,
                                 retry_after |-> processed.retry_after,
                                 analysis |-> analysis.raised]
    /\ UNCHANGED <<now, in_flight, requested, checkinVars, domainVars, schedVars,
                   reportVars, registryVars>>

----------------------------------------------------------------------------
(* EmotionService.create_emotion_translation for the premium user u3, whose
   daily limit (premium_tier_daily_limit) is out of reach within the bounds:
   the row is stored and _process_translation leaves it COMPLETED or FAILED *)
CreateEmotionTranslationPremium(child_id, event) ==
    LET analysis == AnalyzeChildEmotions(rate_limiter, event, "httpx", now)
        translation == [NewTranslation EXCEPT !.user_id = "u3",
                                              !.child_id = child_id,
                                              !.created_at = now]
    IN
    /\ translations' = Append(translations,
                              ProcessTranslation(translation, analysis).translation)
    /\ rate_limiter' = analysis.limiter
    /\ UNCHANGED <<now, checkinVars, quotaVars, domainVars, schedVars,
                   reportVars, registryVars>>

(* EmotionService.create_emotion_translation for the user u1, cut at its
   suspension point.  The step "check" is the call up to the provider call:
   check_daily_limit, then the request waits for the provider; any number of
   other requests may run while it waits.  The steps "ok" and
   "ExternalServiceError" are the return of the provider call for one waiting
   request, followed by increment_request_count when the provider answered. *)
CreateEmotionTranslationStep(step) ==
    LET today == Today(now)
        check == CheckDailyLimit(users, today)
        call(result) == [op |-> "translate", result |-> result,
                         seq |-> requested, served_before |-> served.app,
                         target |-> 0, provider |-> None, limited |-> FALSE,
                         retry_after |-> NoRetryAfter, analysis |-> None]
    IN
    /\ IF step = "check"
       THEN /\ requested < MaxRequests
            /\ in_flight < MaxPending
            /\ requested' = requested + 1
            /\ IF check.raised
               THEN /\ quotaLast' = call("RateLimitExceededError")
                    /\ UNCHANGED <<users, in_flight>>
               ELSE /\ users' = check.user
                    /\ in_flight' = in_flight + 1
                    /\ UNCHANGED quotaLast
            /\ UNCHANGED served
       ELSE /\ in_flight > 0
            /\ in_flight' = in_flight - 1
            /\ users' = IF step = "ok"
                        THEN UserServiceIncrementRequestCount(users, today)
                        ELSE users
            /\ served' = IF step = "ok" THEN [served EXCEPT !.app = @ + 1]
                                        ELSE served
            /\ quotaLast' = call(step)
            /\ UNCHANGED requested
    /\ UNCHANGED <<now, checkinVars, domainVars, schedVars, reportVars,
                   providerVars, registryVars>>

---------------------------------------------------------------------------
(* EmotionTranslatorService.translate_emotion for the user u1 *)
TranslateEmotion(message, child_id, use_cache, connected, reply) ==
    LET r == TranslateEmotionResult(domain_user, redis, message, child_id,
                                    use_cache, connected, reply, Today(now))
        age == IF child_id = None THEN DefaultAge ELSE ChildAge[child_id]
    IN
    /\ redis' = r.cache
    /\ domain_user' = r.user
    /\ served' = IF r.result = "ok" /\ ~r.cache_hit
                 THEN [served EXCEPT !.domain = @ + 1] ELSE served
    /\ domLast' = [op |-> "translate", result |-> r.result, target |-> 0,
                   use_cache |-> use_cache, provider |-> reply.kind,
                   cache_hit |-> r.cache_hit, mood_score |-> r.mood_score,
                   processing_time_ms |-> r.processing_time_ms,
                   cache_written |-> \E e \in r.cache :
                                        e.key = GetCacheKey(message, age),
                   served_before |-> served.domain, message |-> None]
    /\ UNCHANGED <<now, in_flight, checkin_repository, users, requested, quotaLast,
                   checkinVars, schedVars, reportVars,
                   providerVars, registryVars>>

(* outcome record of a CheckInService call *)
DomCall(op, result, target) ==
    [op |-> op, result |-> result, target |-> target, use_cache |-> FALSE,
     provider |-> "none", cache_hit |-> FALSE, mood_score |-> NoScore,
     processing_time_ms |-> 0, cache_written |-> FALSE,
     served_before |-> served.domain, message |-> None]

(* CheckInService.schedule_checkin for the user u1; scheduled_at defaults to
   five minutes from now, which is within the current tick *)
ScheduleCheckin(child_id, category) ==
    LET age == IF child_id = None THEN DefaultAge ELSE ChildAge[child_id]
        questions == GetAppropriateQuestions(age, category)
    IN
    /\ Len(checkin_repository) < MaxScheduled
    /\ IF ~CanMakeRequest(domain_user, "checkin", Today(now)).allowed
       THEN /\ domLast' = DomCall("schedule", "RateLimitExceededException", 0)
            /\ UNCHANGED checkin_repository
       ELSE IF child_id # None /\ child_id \notin Range(ChildrenSeq["u1"])
       THEN \* user.get_child(child_id) is None
            /\ domLast' = [DomCall("schedule", "CheckInException", 0)
                              EXCEPT !.message = "Child not found"]
            /\ UNCHANGED checkin_repository
       ELSE IF questions = <<>>
       THEN /\ domLast' = [DomCall("schedule", "CheckInException", 0)
                              EXCEPT !.message = "No appropriate questions found"]
            /\ UNCHANGED checkin_repository
       ELSE /\ checkin_repository' =
                   Append(checkin_repository,
                          NewCheckIn("u1", child_id, now, questions[1]))
            /\ domLast' = DomCall("schedule", "ok", Len(checkin_repository) + 1)
    /\ UNCHANGED <<now, redis, domain_user, checkinVars, quotaVars, schedVars,
                   reportVars,
                   providerVars, registryVars>>

(* CheckInService.complete_checkin (analyze_emotions = True) *)
Blank == "  "
(* the checks at the head of complete_checkin: CheckInException("Check-in not
   found") and CheckInException("Check-in already completed") are of one
   class and one error code, only the text of the message differs *)
CompleteCheckinRaises(repository, checkin_id) ==
    IF checkin_id \notin 1..Len(repository) THEN "CheckInException"
    ELSE IF IsCompleted(repository[checkin_id]) THEN "CheckInException"
    ELSE None

DomainCompleteCheckin(checkin_id, response_text, reply) ==
    IF CompleteCheckinRaises(checkin_repository, checkin_id) # None
    THEN /\ domLast' = DomCall("complete",
                               CompleteCheckinRaises(checkin_repository,
                                                     checkin_id),
                               checkin_id)
         /\ UNCHANGED <<now, checkin_repository, redis, domain_user, checkinVars,
                        quotaVars, schedVars, reportVars,
                        providerVars, registryVars>>
    ELSE
    LET checkin == checkin_repository[checkin_id] IN
    LET translation == TranslateEmotionResult(
                           domain_user, redis,
                           [head |-> response_text, tail |-> ""],
                           checkin.child_id, TRUE, TRUE, reply, Today(now))
        analysed == response_text # Blank /\ translation.result = "ok"
        detected_emotions ==
            IF analysed
            THEN [i \in 1..Len(translation.insights) |->
                     translation.insights[i].emotion]
            ELSE <<>>
        mood_score ==
            IF analysed /\ translation.mood_score # NoScore
            THEN translation.mood_score ELSE Rat(0, 1)
        done == CheckInComplete(checkin, response_text, detected_emotions,
                                mood_score, now)
    IN
    /\ checkin_repository' =
           IF done.raised THEN checkin_repository
           ELSE [checkin_repository EXCEPT ![checkin_id] = done.checkin]
    /\ redis' = IF analysed THEN translation.cache ELSE redis
    /\ domain_user' = IF analysed THEN translation.user ELSE domain_user
    /\ domLast' = [DomCall("complete",
                           IF done.raised THEN "ValueError" ELSE "ok",
                           checkin_id)
                   EXCEPT !.mood_score = mood_score]
    /\ UNCHANGED <<now, checkinVars, quotaVars, schedVars, reportVars,
                   providerVars, registryVars>>

(* CheckInService.skip_checkin *)
SkipCheckin(checkin_id) ==
    /\ IF checkin_id \notin 1..Len(checkin_repository)
       THEN /\ domLast' = DomCall("skip", "CheckInException", checkin_id)
            /\ UNCHANGED checkin_repository
       ELSE LET done == CheckInSkip(checkin_repository[checkin_id],
                                    "Skipped by user", now)
            IN  /\ checkin_repository' =
                       IF done.raised THEN checkin_repository
                       ELSE [checkin_repository EXCEPT ![checkin_id] = done.checkin]
                /\ domLast' = DomCall("skip",
                                      IF done.raised THEN "ValueError" ELSE "ok",
                                      checkin_id)
    /\ UNCHANGED <<now, redis, domain_user, checkinVars, quotaVars, schedVars,
                   reportVars,
                   providerVars, registryVars>>

(* CheckInService.reschedule_checkin *)
RescheduleCheckin(checkin_id, new_scheduled_at) ==
    /\ IF checkin_id \notin 1..Len(checkin_repository)
       THEN /\ domLast' = DomCall("reschedule", "CheckInException", checkin_id)
            /\ UNCHANGED checkin_repository
       ELSE IF IsCompleted(checkin_repository[checkin_id])
       THEN /\ domLast' = DomCall("reschedule", "CheckInException", checkin_id)
            /\ UNCHANGED checkin_repository
       ELSE /\ checkin_repository' =
                   [checkin_repository EXCEPT
                       ![checkin_id].scheduled_at = new_scheduled_at]
            /\ domLast' = DomCall("reschedule", "ok", checkin_id)
    /\ UNCHANGED <<now, redis, domain_user, checkinVars, quotaVars, schedVars,
                   reportVars,
                   providerVars, registryVars>>

---------------------------------------------------------------------------
(* TaskScheduler: the trigger callbacks of the jobs and their tasks *)
(* the callbacks that end with "await self.running_tasks[task_name]" *)
AwaitedJobs == {"schedule_daily_checkins"}

(* a callback without the overlap guard (a faulty variant) *)
AlreadyRunningNever(tasks, alive, task_name) == FALSE

(* an overlap guard over all the jobs: one task at a time (a faulty variant) *)
AlreadyRunningAny(tasks, alive, task_name) ==
    \E j \in DOMAIN tasks : tasks[j] # 0 /\ tasks[j] \in alive[j]

(* "task_name in self.running_tasks and not self.running_tasks[task_name].done()" *)
AlreadyRunning(tasks, alive, task_name) ==
    tasks[task_name] # 0 /\ tasks[task_name] \in alive[task_name]

(* the trigger of job task_name fires: the callback runs up to its return or
   its await *)
FireWork(task_name) ==
    /\ counts[task_name].fired < MaxFires
    /\ IF AlreadyRunning(running_tasks, live, task_name)
       THEN /\ counts' = [counts EXCEPT ![task_name].fired = @ + 1,
                                        ![task_name].skipped = @ + 1]
            /\ UNCHANGED <<running_tasks, live>>
       ELSE LET task == counts[task_name].created + 1 IN
            /\ running_tasks' = [running_tasks EXCEPT ![task_name] = task]
            /\ live' = [live EXCEPT ![task_name] = @ \cup {task}]
            /\ counts' = [counts EXCEPT
                             ![task_name].fired = @ + 1,
                             ![task_name].created = @ + 1,
                             ![task_name].awaiting =
                                 IF task_name \in AwaitedJobs THEN @ + 1 ELSE @]

Fire(task_name) ==
    /\ engine.running
    /\ Registered(jobs, task_name)
    /\ FireWork(task_name)
    /\ UNCHANGED <<now, checkinVars, quotaVars, domainVars, reportVars,
                   providerVars, registryVars>>

(* a task whose entry stays and that is never done (a faulty variant) *)
TaskEndsNever(tasks, alive, task_name, task) ==
    [running_tasks |-> tasks, live |-> alive]

(* a task that is done while its entry stays in running_tasks (a faulty
   variant) *)
TaskEndsEntryStays(tasks, alive, task_name, task) ==
    [running_tasks |-> tasks, live |-> [alive EXCEPT ![task_name] = @ \ {task}]]

(* the end of _run_task: "finally" deletes the entry of the job and the task
   is done *)
TaskEnds(tasks, alive, task_name, task) ==
    [running_tasks |-> [tasks EXCEPT ![task_name] = 0],
     live |-> [alive EXCEPT ![task_name] = @ \ {task}]]

(* _run_task of a task runs to its end: the work of the job, then the
   "finally" that deletes the entry of the job *)
RunTask(task_name, task) ==
    /\ task \in live[task_name]
    /\ live' = [live EXCEPT ![task_name] = @ \ {task}]
    /\ running_tasks' = [running_tasks EXCEPT ![task_name] = 0]
    /\ counts' = [counts EXCEPT ![task_name].awaiting = 0]
    /\ IF task_name = "schedule_daily_checkins"
       THEN ScheduleDailyCheckinsWork
       ELSE IF GetPendingCheckins(checkins, now) = <<>>
       THEN UNCHANGED checkinVars
       ELSE \E failed \in 0..MaxCheckins : SendPendingCheckinsWork(failed)
    /\ UNCHANGED <<now, quotaVars, domainVars, reportVars,
                   providerVars, registryVars>>

(* _run_task of a task whose work raises (the query of the service fails):
   "except Exception" logs the error, "finally" deletes the entry of the job,
   and the task is done *)
RunTaskFails(task_name, task) ==
    /\ task \in live[task_name]
    /\ live' = TaskEnds(running_tasks, live, task_name, task).live
    /\ running_tasks' =
           TaskEnds(running_tasks, live, task_name, task).running_tasks
    /\ counts' = [counts EXCEPT ![task_name].awaiting = 0,
                                ![task_name].failed = 1]
    /\ UNCHANGED <<now, checkinVars, quotaVars, domainVars, reportVars,
                   providerVars, registryVars>>

(* TaskScheduler.stop, called while the scheduler runs.  The loop goes over
   running_tasks.items(): the task of the first entry (first, "none" when
   there is no entry) is cancelled and awaited, and the "finally" of its
   _run_task deletes its entry while the loop is over the dictionary, so the
   next step of the loop raises RuntimeError (dictionary changed size during
   iteration).  The handler of stop logs it: running_tasks.clear() and
   scheduler.shutdown are not reached. *)
Stop(first) ==
    /\ engine.running
    /\ IF \A j \in JobIds : running_tasks[j] = 0
       THEN /\ first = None
            /\ engine' = [engine EXCEPT !.running = FALSE, !.stopped = TRUE]
            /\ UNCHANGED <<running_tasks, live, counts>>
       ELSE /\ first \in JobIds
            /\ running_tasks[first] # 0
            /\ live' = TaskEnds(running_tasks, live, first,
                                running_tasks[first]).live
            /\ running_tasks' = TaskEnds(running_tasks, live, first,
                                         running_tasks[first]).running_tasks
            /\ counts' = [counts EXCEPT ![first].awaiting = 0]
            /\ engine' = [engine EXCEPT !.stopped = TRUE]
    /\ UNCHANGED <<now, checkinVars, quotaVars, domainVars, reportVars,
                   providerVars, jobs, scheduler>>

---------------------------------------------------------------------------
(* TaskScheduler.add_job: an error of the scheduler is logged and raised *)
AddJob(job_id, func) ==
    LET added == StoreAddJob(jobs, job_id, func, ReplaceExisting) IN
    /\ jobs' = added.store
    /\ scheduler' = [op |-> "add_job", job_id |-> job_id, func |-> func,
                     raised |-> added.raised, logged |-> added.raised,
                     before |-> jobs,
                     added |-> [scheduler.added EXCEPT ![job_id] = func]]
    /\ UNCHANGED <<now, checkinVars, quotaVars, domainVars, schedVars,
                   reportVars, providerVars, engine>>

(* TaskScheduler.remove_job: an error of the scheduler is logged, not raised *)
RemoveJob(job_id) ==
    LET removed == StoreRemoveJob(jobs, job_id) IN
    /\ jobs' = removed.store
    /\ scheduler' = [op |-> "remove_job", job_id |-> job_id, func |-> None,
                     raised |-> None, logged |-> removed.raised,
                     before |-> jobs,
                     added |-> [scheduler.added EXCEPT ![job_id] = None]]
    /\ UNCHANGED <<now, checkinVars, quotaVars, domainVars, schedVars,
                   reportVars, providerVars, engine>>

(* the trigger of the i-th job of the store fires and the scheduler calls the
   function of the job; a function added by add_job is outside this program *)
TriggerJob(i) ==
    /\ engine.running
    /\ i \in 1..Len(jobs)
    /\ scheduler' = [op |-> "fire", job_id |-> jobs[i].id,
                     func |-> jobs[i].func, raised |-> None, logged |-> None,
                     before |-> jobs, added |-> scheduler.added]
    /\ IF jobs[i].func \in JobIds
       THEN FireWork(jobs[i].func)
       ELSE UNCHANGED schedVars
    /\ UNCHANGED <<now, checkinVars, quotaVars, domainVars, reportVars,
                   providerVars, jobs, engine>>

(* The scheduler wakes up gap units after its last wake-up (later than the
   next run time when the process or the event loop was held up) and
   processes the due jobs: the occurrences in executed are those whose job
   function it calls.  coalesce is the default of the scheduler. *)
Wakeup(gap, coalesce) ==
    LET t == engine.wall + gap
        due == [j \in JobIds |->
                   IF Registered(jobs, j)
                   THEN DueRunTimes(j, engine.next_run_time[j], t) ELSE {}]
    IN
    /\ t <= MaxWall
    /\ engine.running
    /\ engine' = [running |-> TRUE, stopped |-> engine.stopped,
                  wall |-> t,
                  previous |-> engine.wall,
                  next_run_time |->
                      [j \in JobIds |->
                          IF Registered(jobs, j)
                          THEN NextRunTime(j, engine.next_run_time[j], t)
                          ELSE engine.next_run_time[j]],
                  due |-> due,
                  executed |->
                      [j \in JobIds |->
                          IF Registered(jobs, j)
                          THEN ExecutedRunTimes(j, engine.next_run_time[j], t,
                                                coalesce)
                          ELSE {}]]
    /\ UNCHANGED <<now, checkinVars, quotaVars, domainVars, schedVars,
                   reportVars, providerVars, jobs, scheduler>>

---------------------------------------------------------------------------
(* Weekly reports.  A week is named by its number; NoWeek is the omitted
   week_start argument, which defaults to the Monday of the current week. *)
WeekOf(t) == t \div (7 * TicksPerDay)
ResolveWeek(week_start, t) == IF week_start = NoWeek THEN WeekOf(t) ELSE week_start

NewWeeklyReport(user_id, child_id, week_start, t, total_translations, summary) ==
    [user_id |-> user_id, child_id |-> child_id, week_start |-> week_start,
     generated_at |-> t, total_translations |-> total_translations,
     summary |-> summary]

(* the texts written without the provider: fixed sentences with the dates of
   the week and the counts of the week filled in *)
FallbackReport(week_start, total_translations) ==
    [source |-> "fallback", week_start |-> week_start,
     total_translations |-> total_translations]

(* a report generation that lets the error of the provider call through (a
   faulty variant) *)
GenerateReportWithClaudeRaising(limiter, event, t, week_start, total_translations) ==
    LET check == CheckLimits(limiter, t) IN
    IF check.raised = None /\ event = "ok"
    THEN [raised |-> None, limiter |-> check.limiter,
          summary |-> [source |-> "provider", week_start |-> week_start,
                       total_translations |-> total_translations]]
    ELSE [raised |-> "ExternalServiceError", limiter |-> check.limiter,
          summary |-> FallbackReport(week_start, total_translations)]

(* CheckinService._generate_report_with_claude with
   ClaudeService.generate_weekly_report: the limiter is asked, the provider is
   called and its reply goes through _parse_claude_response; whatever that
   raises becomes ExternalServiceError, and "except Exception" of
   _generate_report_with_claude answers it with the texts written without the
   provider.  Nothing is raised. *)
GenerateReportWithClaude(limiter, event, t, week_start, total_translations) ==
    LET check == CheckLimits(limiter, t) IN
    IF check.raised = None /\ event = "ok"
    THEN [raised |-> None, limiter |-> check.limiter,
          summary |-> [source |-> "provider", week_start |-> week_start,
                       total_translations |-> total_translations]]
    ELSE [raised |-> None, limiter |-> check.limiter,
          summary |-> FallbackReport(week_start, total_translations)]

(* CheckinService._get_week_translations: the COMPLETED translations of the
   user (of the child, when given) created in [week_start, week_start + 7 days) *)
WeekTranslations(tbl, user_id, child_id, week_start) ==
    {i \in 1..Len(tbl) :
        /\ tbl[i].user_id = user_id
        /\ tbl[i].created_at >= week_start * 7 * TicksPerDay
        /\ tbl[i].created_at < (week_start + 1) * 7 * TicksPerDay
        /\ tbl[i].status = "COMPLETED"
        /\ (child_id # None => tbl[i].child_id = child_id)}

(* SQLAlchemyEmotionTranslationRepository.get_recent: the query for the rows
   of the last days runs and its result is dropped ("return []") *)
GetRecent(tbl, user_id, t) == <<>>

SameKey(row, user_id, child_id, week_start) ==
    /\ row.user_id = user_id /\ row.child_id = child_id
    /\ row.week_start = week_start

(* a table without the unique indexes (a faulty variant) *)
UniqueViolationNever(tbl, row) == FALSE

(* ix_weekly_reports_unique_week (child_id IS NOT NULL) and
   ix_weekly_reports_unique_user_week (child_id IS NULL): the insert of row
   is rejected *)
UniqueViolation(tbl, row) ==
    \E i \in 1..Len(tbl) :
        /\ tbl[i].user_id = row.user_id
        /\ tbl[i].week_start = row.week_start
        /\ \/ (row.child_id # None /\ tbl[i].child_id = row.child_id)
           \/ (row.child_id = None /\ tbl[i].child_id = None)

(* SQLAlchemyWeeklyReportRepository.exists_for_week *)
ExistsForWeek(tbl, user_id, week_start, child_id) ==
    \E i \in 1..Len(tbl) :
        /\ tbl[i].user_id = user_id
        /\ tbl[i].week_start = week_start
        /\ (child_id # None => tbl[i].child_id = child_id)

(* SQLAlchemyWeeklyReportRepository.get_latest: the rows the query may
   return (ORDER BY week_start DESC LIMIT 1; rows of equal week_start come in
   any order); the empty set when it returns None *)
GetLatest(tbl, user_id, child_id) ==
    LET matching == {i \in 1..Len(tbl) :
                        /\ tbl[i].user_id = user_id
                        /\ (child_id # None => tbl[i].child_id = child_id)}
    IN  {i \in matching : \A j \in matching : tbl[j].week_start <= tbl[i].week_start}

StoredFor(tbl, user_id, child_id, week_start) ==
    {i \in 1..Len(tbl) : SameKey(tbl[i], user_id, child_id, week_start)}

ReportCall(op, user_id, child_id, week_start, result, returned) ==
    [op |-> op, user_id |-> user_id, child_id |-> child_id,
     week_start |-> week_start, result |-> result, returned |-> returned,
     existed |-> StoredFor(weekly_reports, user_id, child_id, week_start) # {},
     provider |-> None]

(* application CheckinService.generate_weekly_report; event is what the
   provider does when it is asked for the texts of the report *)
GenerateWeeklyReport(user_id, child_id, week_start_arg, event) ==
    LET week_start == ResolveWeek(week_start_arg, now)
        total_translations == Cardinality(WeekTranslations(translations, user_id,
                                                           child_id, week_start))
        report_data == GenerateReportWithClaude(rate_limiter, event, now,
                                                week_start, total_translations)
        report == NewWeeklyReport(user_id, child_id, week_start, now,
                                  total_translations, report_data.summary)
        call(result, returned) ==
            [ReportCall("generate_weekly_report", user_id, child_id, week_start,
                        result, returned)
                EXCEPT !.provider = IF report_data.summary.source = "provider"
                                    THEN "ok"
                                    ELSE IF event = "ok" THEN "limited"
                                    ELSE "failed"]
    IN
    /\ rate_limiter' = report_data.limiter
    /\ IF report_data.raised # None \/ UniqueViolation(weekly_reports, report)
       THEN \* an error of the report data or the IntegrityError of the commit,
            \* wrapped into BusinessLogicError
            /\ reportLast' = call("BusinessLogicError", 0)
            /\ UNCHANGED weekly_reports
       ELSE /\ Len(weekly_reports) < MaxReports
            /\ weekly_reports' = Append(weekly_reports, report)
            /\ reportLast' = call("ok", Len(weekly_reports) + 1)
    /\ UNCHANGED <<now, pending, translations, checkinVars, quotaVars, domainVars,
                   schedVars, registryVars>>

(* AnalyticsService.generate_weekly_report up to the existence check: it
   returns what get_latest gives when a report exists, and goes on to collect
   the data of the week otherwise *)
AnalyticsGenerateCheck(user_id, child_id, week_start_arg) ==
    LET week_start == ResolveWeek(week_start_arg, now) IN
    /\ IF ~SubscriptionPlan[PlanOf[user_id]].weekly_reports
       THEN /\ reportLast' = ReportCall("analytics_generate", user_id, child_id,
                                        week_start, "DomainException", 0)
            /\ UNCHANGED pending
       ELSE IF ExistsForWeek(weekly_reports, user_id, week_start, child_id)
       THEN /\ \E latest \in GetLatest(weekly_reports, user_id, child_id) :
                  reportLast' = ReportCall("analytics_generate", user_id, child_id,
                                           week_start, "ok", latest)
            /\ UNCHANGED pending
       ELSE /\ Len(pending) < MaxPending
            /\ pending' =
                   Append(pending,
                          [user_id |-> user_id, child_id |-> child_id,
                           week_start |-> week_start,
                           total_translations |->
                               Len(SelectSeq(GetRecent(translations, user_id, now),
                                             LAMBDA t : child_id = None
                                                        \/ t.child_id = child_id))])
            /\ reportLast' = ReportCall("analytics_collect", user_id, child_id,
                                        week_start, "ok", 0)
    /\ UNCHANGED <<now, weekly_reports, checkinVars, quotaVars, domainVars,
                   schedVars,
                   providerVars, registryVars>>

(* ... and its end: report_repository.save of the report built *)
AnalyticsGenerateSave(k) ==
    /\ k \in 1..Len(pending)
    /\ LET call == pending[k]
           report == NewWeeklyReport(call.user_id, call.child_id,
                                     call.week_start, now,
                                     call.total_translations,
                                     FallbackReport(call.week_start,
                                                    call.total_translations))
       IN  IF UniqueViolation(weekly_reports, report)
           THEN /\ reportLast' = ReportCall("analytics_generate", call.user_id,
                                            call.child_id, call.week_start,
                                            "IntegrityError", 0)
                /\ UNCHANGED weekly_reports
           ELSE /\ Len(weekly_reports) < MaxReports
                /\ weekly_reports' = Append(weekly_reports, report)
                /\ reportLast' = ReportCall("analytics_generate", call.user_id,
                                            call.child_id, call.week_start, "ok",
                                            Len(weekly_reports) + 1)
    /\ pending' = [i \in 1..(Len(pending) - 1) |->
                      IF i < k THEN pending[i] ELSE pending[i + 1]]
    /\ UNCHANGED <<now, checkinVars, quotaVars, domainVars, schedVars,
                   providerVars, registryVars>>

---------------------------------------------------------------------------
(* Requests of the front-end *)
CreateRequests ==
    { <<"u1", "c1", "DAILY">>, <<"u2", None, "DAILY">>,
      <<"u1", "c1", "WEEKLY">>, <<"u1", "c3", "DAILY">>,
      <<"u1", "c9", "DAILY">> }

(* The check-in life cycle of the application stack: creation and fan-out *)
Next ==
    \/ Tick
    \/ \E r \in CreateRequests : CreateScheduledCheckin(r[1], r[2], r[3])
    \/ ScheduleDailyCheckins

Spec == Init /\ [][Next]_vars

---------------------------------------------------------------------------
(* C2: in every reachable state, under any interleaving of direct creates and
   fan-out runs, at most one uncompleted DAILY check-in exists per
   (user, child) pair *)
C2_AtMostOneScheduledDaily ==
    \A i, j \in 1..Len(checkins) :
        ( /\ checkins[i].checkin_type = "DAILY" /\ ~checkins[i].is_completed
          /\ checkins[j].checkin_type = "DAILY" /\ ~checkins[j].is_completed
          /\ checkins[i].user_id = checkins[j].user_id
          /\ checkins[i].child_id = checkins[j].child_id ) => i = j

(* rows a fan-out run on table tbl at time t adds for (user_id, child_id) *)
NewDailyFor(tbl, t, user_id, child_id) ==
    LET once == ScheduleDailyResult(tbl, t) IN
    {i \in (Len(tbl) + 1)..Len(once) :
        /\ once[i].user_id = user_id /\ once[i].child_id = child_id
        /\ once[i].checkin_type = "DAILY" /\ ~once[i].is_completed}

(* C3: a second fan-out run right after a first one creates nothing (the
   table after two runs is the table after one), whatever the table was
   before; and the first run gives every active user without an uncompleted
   DAILY check-in exactly one per child, or one generic one when the user has
   no child, and gives nothing to anybody else *)
C3_FanoutIdempotent ==
    LET once == ScheduleDailyResult(checkins, now) IN
    /\ ScheduleDailyResult(once, now) = once
    /\ SubSeq(once, 1, Len(checkins)) = checkins
    /\ \A u \in UserIds :
          LET added == {i \in (Len(checkins) + 1)..Len(once) : once[i].user_id = u}
              kids  == Range(ChildrenSeq[u])
          IN  IF IsActive[u] /\ ExistingDaily(checkins, u) = {}
              THEN IF kids # {}
                   THEN /\ \A c \in kids :
                             Cardinality(NewDailyFor(checkins, now, u, c)) = 1
                        /\ Cardinality(added) = Cardinality(kids)
                   ELSE /\ Cardinality(NewDailyFor(checkins, now, u, None)) = 1
                        /\ Cardinality(added) = 1
              ELSE added = {}
    /\ (lastCall.op = "fanout" => once = checkins)

(* a fan-out run created the check-ins of u1's two children and of u2, and a
   later run, the last call, created nothing *)
C3_SecondRunCreatedNothing ==
    /\ lastCall.op = "fanout" /\ lastCall.created = 0
    /\ \E i, j, k \in 1..Len(checkins) :
          /\ checkins[i].user_id = "u1" /\ checkins[i].child_id = "c1"
          /\ checkins[j].user_id = "u1" /\ checkins[j].child_id = "c2"
          /\ j = i + 1
          /\ checkins[k].user_id = "u2" /\ checkins[k].child_id = None
          /\ k = j + 1

(* C17: a DAILY check-in created without scheduled_at is scheduled at the
   send time of the day of its creation if that is still ahead and at the
   send time of the next day otherwise: later than the creation and at most
   one day later *)
C17_DailyScheduledAtNextSendTime ==
    [][ \A i \in (Len(checkins) + 1)..Len(checkins') :
          checkins'[i].checkin_type = "DAILY" =>
             LET send_today == Today(now) * TicksPerDay + SendTick IN
             /\ checkins'[i].scheduled_at =
                    IF send_today > now THEN send_today
                    ELSE send_today + TicksPerDay
             /\ checkins'[i].scheduled_at > now
             /\ checkins'[i].scheduled_at <= now + TicksPerDay
      ]_vars

(* a DAILY check-in created at or after the send time of the day is scheduled
   at the send time of the next day *)
C17_CreatedAfterSendTime ==
    /\ lastCall.op = "create" /\ lastCall.created = 1
    /\ now % TicksPerDay >= SendTick
    /\ checkins[Len(checkins)].checkin_type = "DAILY"
    /\ checkins[Len(checkins)].scheduled_at =
           (Today(now) + 1) * TicksPerDay + SendTick

(* C22: create_scheduled_checkin with a child that does not exist or is not
   a child of the user fails and persists nothing: every check-in of the
   table names no child or a child of its user, and a failed call has
   created no row *)
C22_ForeignChildRejected ==
    /\ \A i \in 1..Len(checkins) :
          checkins[i].child_id # None
          => /\ checkins[i].child_id \in ChildIds
             /\ ParentId[checkins[i].child_id] = checkins[i].user_id
    /\ (lastCall.op = "create" /\ lastCall.result # "ok")
       => lastCall.created = 0

(* a create call was rejected after check-ins had been created *)
C22_CreateRejected ==
    /\ lastCall.op = "create"
    /\ lastCall.result = "BusinessLogicError"
    /\ lastCall.created = 0
    /\ Len(checkins) >= 1

(* The dispatch job on top of fan-out and creation *)
DispatchNext ==
    \/ Tick
    \/ CreateScheduledCheckin("u2", None, "DAILY")
    \/ (checkins = <<>> /\ CreateScheduledCheckin("u2", None, "CUSTOM"))
    \/ ScheduleDailyCheckins
    \/ \E f \in 0..MaxCheckins : SendPendingCheckins(f)
    \/ (Len(sent) >= 3 /\ sent[3] > 0 /\ CompleteCheckin(3, {"happy"}, FALSE, TRUE))

SpecDispatch == Init /\ [][DispatchNext]_vars

(* C4: no check-in is sent to the front-end more than once while it stays
   uncompleted *)
C4_SentAtMostOnce ==
    \A i \in 1..Len(sent) : ~checkins[i].is_completed => sent[i] <= 1

(* C26: a dispatch run asks get_pending_checkins for the check-ins due now and
   sends what it returns, in the order returned: exactly the uncompleted
   check-ins scheduled at or before the cutoff, each once, none scheduled
   later, none left out, in ascending scheduled_at order; no other check-in is
   sent *)
C26_PendingExactInOrder ==
    [][ (lastCall'.op = "send" /\ (lastCall' # lastCall \/ sent' # sent))
        => LET pending_checkins == lastCall'.dispatched IN
           /\ Range(pending_checkins)
                = {i \in 1..Len(checkins) : /\ ~checkins[i].is_completed
                                            /\ checkins[i].scheduled_at <= now}
           /\ \A k, l \in 1..Len(pending_checkins) :
                 k < l => /\ pending_checkins[k] # pending_checkins[l]
                          /\ checkins[pending_checkins[k]].scheduled_at
                               <= checkins[pending_checkins[l]].scheduled_at
           /\ \A i \in 1..Len(sent) :
                 sent'[i] # sent[i] => i \in Range(pending_checkins) ]_vars

(* a dispatch run sent a later-created check-in before an earlier-created one
   because it was scheduled earlier, while a check-in scheduled after the
   cutoff and a completed check-in that was due stayed out *)
C26_DispatchedOutOfIdOrder ==
    /\ lastCall.op = "send"
    /\ Len(lastCall.dispatched) >= 2
    /\ lastCall.dispatched[1] > lastCall.dispatched[2]
    /\ checkins[lastCall.dispatched[1]].scheduled_at
         < checkins[lastCall.dispatched[2]].scheduled_at
    /\ \E i \in 1..Len(checkins) :
          /\ ~checkins[i].is_completed
          /\ checkins[i].scheduled_at > now
          /\ i \notin Range(lastCall.dispatched)
    /\ \E i \in 1..Len(checkins) :
          /\ checkins[i].is_completed
          /\ checkins[i].scheduled_at <= now
          /\ i \notin Range(lastCall.dispatched)

(* Completion of check-ins in the application stack *)
CompleteNext ==
    \/ Tick
    \/ CreateScheduledCheckin("u1", "c1", "DAILY")
    \/ \E id \in 1..(MaxCheckins + 1), txt \in Texts :
          CompleteCheckin(id, txt, TRUE, TRUE)
    \/ \E tracked \in BOOLEAN : CompleteCheckin(1, {"happy"}, FALSE, tracked)

SpecComplete == Init /\ [][CompleteNext]_vars

(* C10: the mood score complete_checkin computes for a response and assigns
   to the check-in lies in [-1, 1] *)
C10_MoodScoreInUnitRange ==
    lastCall.op = "complete" =>
        (lastCall.mood_score = NoScore \/ InUnitRange(lastCall.mood_score))

(* C12: complete_checkin on an uncompleted check-in always ends with the
   check-in completed and a mood score stored *)
C12_CompleteAlwaysCompletes ==
    (lastCall.op = "complete" /\ lastCall.pending)
    => /\ lastCall.result = "ok"
       /\ checkins[lastCall.target].is_completed
       /\ checkins[lastCall.target].mood_score # NoScore

(* C31: a complete_checkin call on an uncompleted check-in that ends with an
   error leaves the stored check-in as it was: not completed, without
   response, emotions, mood score or completion time *)
C31_CompleteAllOrNothing ==
    (lastCall.op = "complete" /\ lastCall.pending /\ lastCall.result # "ok")
    => LET checkin == checkins[lastCall.target] IN
       /\ ~checkin.is_completed
       /\ checkin.response_text = None
       /\ checkin.detected_emotions = {}
       /\ checkin.mood_score = NoScore
       /\ checkin.completed_at = NoTime

(* C18: complete_checkin with a response that contains "angry" records the
   emotion angry and computes a mood score below zero *)
C18_AngryGivesNegativeScore ==
    (lastCall.op = "complete" /\ lastCall.pending
     /\ "angry" \in lastCall.response_text)
    => /\ "angry" \in lastCall.detected_emotions
       /\ lastCall.mood_score # NoScore
       /\ lastCall.mood_score[1] * lastCall.mood_score[2] < 0

(* The life cycle of a check-in in both stacks *)
DomainTexts == {Blank, "I am happy"}

LifecycleNext ==
    \/ (checkins = <<>> /\ CreateScheduledCheckin("u1", "c1", "DAILY"))
    \/ \E id \in 1..(MaxCheckins + 1) : CompleteCheckin(id, {"happy"}, TRUE, TRUE)
    \/ (Len(checkin_repository) < MaxDomainCheckins /\ ScheduleCheckin("c1", "mood"))
    \/ \E id \in 1..(MaxDomainCheckins + 1), txt \in DomainTexts, reply \in Replies :
          DomainCompleteCheckin(id, txt, reply)
    \/ \E id \in 1..(MaxDomainCheckins + 1) : SkipCheckin(id)
    \/ \E id \in 1..(MaxDomainCheckins + 1) : RescheduleCheckin(id, now + 1)

SpecLifecycle == Init /\ [][LifecycleNext]_vars

(* C1: every check-in is Scheduled, Completed or Skipped, and once a check-in
   has left Scheduled no complete, skip or reschedule call changes its status
   again; in the application stack a completed check-in stays completed *)
C1_StatusTerminal ==
    [][ /\ \A i \in 1..Len(checkin_repository) :
             /\ Status(checkin_repository[i]) \in {"Scheduled", "Completed", "Skipped"}
             /\ Status(checkin_repository[i]) # "Scheduled" =>
                    /\ i <= Len(checkin_repository')
                    /\ Status(checkin_repository'[i]) = Status(checkin_repository[i])
        /\ \A i \in 1..Len(checkins) :
             checkins[i].is_completed =>
                 (i <= Len(checkins') /\ checkins'[i].is_completed)
      ]_vars

(* one check-in is Completed, and the last call, a complete, skip or
   reschedule of a Skipped one, was rejected *)
C1_CallOnTerminalRejected ==
    /\ domLast.op \in {"complete", "skip", "reschedule"}
    /\ domLast.result \in {"CheckInException", "ValueError"}
    /\ domLast.target \in 1..Len(checkin_repository)
    /\ Status(checkin_repository[domLast.target]) = "Skipped"
    /\ \E j \in 1..Len(checkin_repository) :
          Status(checkin_repository[j]) = "Completed"

(* C13: complete_checkin of a missing id and complete_checkin of a completed
   or skipped check-in fail with errors of different kinds *)
C13_NotFoundDistinctFromAlreadyCompleted ==
    \A checkin_id \in 1..Len(checkin_repository) :
        IsCompleted(checkin_repository[checkin_id])
        => CompleteCheckinRaises(checkin_repository, checkin_id)
           # CompleteCheckinRaises(checkin_repository,
                                   Len(checkin_repository) + 1)

(* C24: skip_checkin of a check-in that is not completed sets its skip text
   and completed_at and nothing else, and does not call the translator;
   skip_checkin of a completed or skipped check-in fails and changes nothing *)
C24_SkipFrame ==
    [][ (domLast'.op = "skip"
         /\ (domLast' # domLast \/ checkin_repository' # checkin_repository))
        => LET id == domLast'.target
               repo == checkin_repository
           IN  /\ <<redis, domain_user, served>>' = <<redis, domain_user, served>>
               /\ Len(checkin_repository') = Len(repo)
               /\ \A i \in 1..Len(repo) : i # id => checkin_repository'[i] = repo[i]
               /\ id \in 1..Len(repo)
                  => IF repo[id].completed_at # NoTime
                     THEN /\ domLast'.result # "ok"
                          /\ checkin_repository'[id] = repo[id]
                     ELSE /\ domLast'.result = "ok"
                          /\ checkin_repository'[id].completed_at # NoTime
                          /\ checkin_repository'[id] =
                                [repo[id] EXCEPT
                                    !.response_text = SkippedText("Skipped by user"),
                                    !.completed_at =
                                        checkin_repository'[id].completed_at]
      ]_vars

(* the last call skipped a scheduled check-in: it is Skipped and has no score *)
C24_Skipped ==
    /\ domLast.op = "skip" /\ domLast.result = "ok"
    /\ Status(checkin_repository[domLast.target]) = "Skipped"
    /\ checkin_repository[domLast.target].mood_score = NoScore
    /\ checkin_repository[domLast.target].detected_emotions = <<>>

(* C25: reschedule_checkin of a check-in that is not completed changes its
   scheduled_at and nothing else; on a completed or skipped check-in, or an
   unknown id, it fails and changes nothing *)
C25_RescheduleFrame ==
    [][ (domLast'.op = "reschedule"
         /\ (domLast' # domLast \/ checkin_repository' # checkin_repository))
        => LET id == domLast'.target
               repo == checkin_repository
           IN  IF id \in 1..Len(repo) /\ repo[id].completed_at = NoTime
               THEN /\ domLast'.result = "ok"
                    /\ checkin_repository' =
                          [repo EXCEPT ![id].scheduled_at =
                                          checkin_repository'[id].scheduled_at]
               ELSE /\ domLast'.result # "ok"
                    /\ checkin_repository' = repo
      ]_vars

(* the last call was a reschedule of a skipped check-in and was rejected,
   after a scheduled check-in had been moved *)
C25_RescheduleRejected ==
    /\ domLast.op = "reschedule"
    /\ domLast.result = "CheckInException"
    /\ domLast.target \in 1..Len(checkin_repository)
    /\ Status(checkin_repository[domLast.target]) = "Skipped"
    /\ \E i \in 1..Len(checkin_repository) :
          /\ ~IsCompleted(checkin_repository[i])
          /\ checkin_repository[i].scheduled_at > now

(* The daily quota of a user in both stacks *)
QuotaNext ==
    \/ Tick
    \/ \E outcome \in {"ok", "ExternalServiceError"} :
          CreateEmotionTranslation(outcome)
    \/ \E reply \in {r \in Replies : r.kind # "malformed"} :
          TranslateEmotion([head |-> "I am happy", tail |-> ""], None, FALSE,
                           TRUE, reply)

SpecQuota == Init /\ [][QuotaNext]_vars

(* C36: a translate call that the provider serves adds exactly one to the
   usage counter of the day (the stored counter when it was last written
   today, zero otherwise); a call that fails (quota of the user, error of the
   provider) and a call answered from the cache leave the counter of the day
   as it is, in both services; no other step changes a counter *)
C36_CounterCountsServedCalls ==
    [][ LET today == Today(now)
            counted(user) == IF user.last_request_date = today
                             THEN user.daily_requests_count ELSE 0
        IN
        /\ IF requested' = requested + 1 /\ quotaLast'.op = "translate"
           THEN counted(users')
                    = counted(users) + (IF quotaLast'.result = "ok" THEN 1 ELSE 0)
           ELSE users' = users
        /\ IF /\ now' = now
              /\ domLast'.op = "translate"
              /\ (domLast' # domLast \/ served'.domain # served.domain)
           THEN counted(domain_user')
                    = counted(domain_user)
                      + (IF domLast'.result = "ok" /\ ~domLast'.cache_hit
                         THEN 1 ELSE 0)
           ELSE domain_user' = domain_user
      ]_vars

(* three calls of a day were served, the provider failed in the fourth, and
   the counter reads three; the other service has served one call and failed
   one *)
C36_FailedCallNotCounted ==
    /\ quotaLast.op = "translate"
    /\ quotaLast.result = "ExternalServiceError"
    /\ quotaLast.seq = 4
    /\ users.daily_requests_count = 3
    /\ users.last_request_date = Today(now)
    /\ domLast.op = "translate"
    /\ domLast.result = "EmotionTranslationException"
    /\ domain_user.daily_requests_count = 1
    /\ domain_user.last_request_date = Today(now)

(* C6, as the claim states it: of the create_emotion_translation calls of a
   day, the first FreeTierDailyLimit are admitted and the next one fails with
   the quota error *)
C6_NextRequestAfterLimitFails ==
    quotaLast.op = "translate" =>
        /\ (quotaLast.seq <= FreeTierDailyLimit =>
                quotaLast.result # "RateLimitExceededError")
        /\ (quotaLast.seq = FreeTierDailyLimit + 1 =>
                quotaLast.result = "RateLimitExceededError")

(* C6, amended: a request is rejected with the quota error exactly when the
   limit of requests has been served to the user on that day (a request the
   provider failed does not count), in both stacks; the count of a day never
   passes the limit and starts again at zero on the next day *)
C6_QuotaBoundary ==
    /\ quotaLast.op = "translate" =>
          (quotaLast.result = "RateLimitExceededError"
              <=> quotaLast.served_before >= FreeTierDailyLimit)
    /\ served.app <= FreeTierDailyLimit
    /\ domLast.op = "translate" =>
          (domLast.result = "RateLimitExceededException"
              <=> domLast.served_before >= SubscriptionPlan.free.daily_translation_limit)
    /\ served.domain <= SubscriptionPlan.free.daily_translation_limit

(* on the second day the limit has been served again and the last request
   was rejected *)
C6_RejectedAtLimitOnNextDay ==
    /\ Today(now) >= 1
    /\ quotaLast.op = "translate"
    /\ quotaLast.result = "RateLimitExceededError"
    /\ quotaLast.served_before = FreeTierDailyLimit

(* C27: a request rejected by the daily quota fails with an error that
   carries a retry-after value *)
C27_QuotaErrorCarriesRetryAfter ==
    ( /\ quotaLast.op = "translate"
      /\ quotaLast.result = "RateLimitExceededError"
      /\ quotaLast.served_before >= FreeTierDailyLimit )
    => quotaLast.retry_after # NoRetryAfter

(* Requests of one user that overlap: a request may start while others wait
   for the provider *)
ConcurrentNext ==
    \/ Tick
    \/ \E step \in {"check", "ok", "ExternalServiceError"} :
          CreateEmotionTranslationStep(step)

SpecConcurrent == Init /\ [][ConcurrentNext]_vars

(* C29: whatever the interleaving of the requests of a user, the number of
   requests served to the user within one day never exceeds the daily limit *)
C29_AdmittedWithinLimit == served.app <= FreeTierDailyLimit

(* Translation requests of the domain stack *)
TranslateNext ==
    \/ Tick
    \/ \E message \in Messages, c \in {None, "c1"}, use_cache \in BOOLEAN,
          reply \in Replies :
          TranslateEmotion(message, c, use_cache, TRUE, reply)
    \/ \E use_cache \in BOOLEAN :
          TranslateEmotion([head |-> "I am happy", tail |-> ""], "c1", use_cache,
                           FALSE, [kind |-> "ok", insights |-> <<>>])
    \/ \E c \in {"c1", "c3"} :
          /\ Len(checkin_repository) <= SubscriptionPlan.free.daily_checkin_limit
          /\ ScheduleCheckin(c, "mood")

SpecTranslate == Init /\ [][TranslateNext]_vars

(* C7: a translate_emotion call with use_cache = true that finds no cache
   entry, is within the quota and gets a reply of the provider succeeds and
   leaves a cache entry for its key *)
C7_FirstCallSucceedsAndCaches ==
    ( /\ domLast.op = "translate" /\ domLast.use_cache /\ ~domLast.cache_hit
      /\ domLast.provider # "error"
      /\ domLast.result # "RateLimitExceededException" )
    => (domLast.result = "ok" /\ domLast.cache_written)

(* C28: a translate_emotion call never fails because the cache store cannot
   be reached: it goes on as on a cache miss *)
C28_CacheFailsOpen ==
    domLast.op = "translate" => domLast.result # "CacheError"

(* C23: a schedule_checkin call succeeds only if fewer check-ins than the
   daily check-in limit of the plan were created for the user that day *)
C23_CreateWithinCheckinQuota ==
    (domLast.op = "schedule" /\ domLast.result = "ok")
    => LET day == Today(checkin_repository[domLast.target].scheduled_at) IN
       Cardinality({i \in 1..(domLast.target - 1) :
                       Today(checkin_repository[i].scheduled_at) = day})
           < SubscriptionPlan[domain_user.plan].daily_checkin_limit

(* The scheduler: triggers firing at any time, tasks ending at any time *)
SchedNext ==
    \/ \E j \in JobIds : Fire(j)
    \/ \E j \in JobIds, task \in 1..MaxFires : RunTask(j, task)
    \/ \E j \in JobIds, task \in 1..MaxFires : RunTaskFails(j, task)
    \/ \E first \in JobIds \cup {None} : Stop(first)

SpecSched == Init /\ [][SchedNext]_vars

(* C5: a job never has two tasks in flight; a trigger that fires while the
   task of the job is in flight is skipped and starts nothing, then or later:
   a task is created only by a firing that is not skipped *)
C5_NoOverlapNeverQueued ==
    [][ \A j \in JobIds :
          /\ Cardinality(live'[j]) <= 1
          /\ counts'[j].created + counts'[j].skipped = counts'[j].fired
          /\ (counts'[j].fired # counts[j].fired /\ live[j] # {}) =>
                 /\ live'[j] = live[j]
                 /\ counts'[j].skipped = counts[j].skipped + 1
                 /\ counts'[j].created = counts[j].created
          /\ (live'[j] \ live[j] # {}) =>
                 /\ counts'[j].fired = counts[j].fired + 1
                 /\ counts'[j].skipped = counts[j].skipped
      ]_vars

(* send_pending_checkins fired while its task was in flight and was skipped;
   the task has ended since, nothing was started for the skipped firing and
   no callback is waiting *)
C5_SkippedWhileInFlight ==
    /\ counts["send_pending_checkins"].skipped = 1
    /\ counts["send_pending_checkins"].created = 1
    /\ counts["send_pending_checkins"].awaiting = 0
    /\ live["send_pending_checkins"] = {}
    /\ running_tasks["send_pending_checkins"] = 0

(* C20: when the work of a task raises, the job is left without a task in
   flight and stays registered, the tasks and counters of the other jobs are
   untouched, and the next firing of the failed job starts a task *)
C20_FailureStaysInItsJob ==
    [][ \A j \in JobIds :
          /\ (counts[j].failed = 0 /\ counts'[j].failed = 1) =>
                /\ ~AlreadyRunning(running_tasks', live', j)
                /\ Registered(jobs', j)
                /\ \A k \in JobIds \ {j} :
                      /\ running_tasks'[k] = running_tasks[k]
                      /\ live'[k] = live[k]
                      /\ counts'[k] = counts[k]
          /\ (counts[j].failed = 1 /\ live[j] = {}
              /\ counts'[j].fired = counts[j].fired + 1) =>
                /\ counts'[j].created = counts[j].created + 1
                /\ live'[j] # {}
      ]_vars

(* the task of schedule_daily_checkins failed and a later firing of the job
   started a new task, while the task of send_pending_checkins, started
   before the failure, is still in flight *)
C20_FiresAgainAfterFailure ==
    /\ counts["schedule_daily_checkins"].failed = 1
    /\ counts["schedule_daily_checkins"].created = 2
    /\ live["schedule_daily_checkins"] # {}
    /\ live["send_pending_checkins"] # {}

(* C39: running_tasks holds the entry of a job only while the task of the job
   is in flight: when the task ends (its work returns, its work raises, or
   stop cancels it) the entry is gone with it, and a firing of the job is
   skipped only while a task of the job is in flight, so the firing that
   follows the end of a task starts a task *)
C39_EntryGoesWithTheTask ==
    /\ [](\A j \in JobIds : running_tasks[j] # 0 => running_tasks[j] \in live[j])
    /\ [][ /\ \A j \in JobIds :
              /\ (live[j] # {} /\ live'[j] = {}) => running_tasks'[j] = 0
              /\ counts'[j].failed # counts[j].failed => live'[j] = {}
              /\ counts'[j].fired = counts[j].fired + 1
                 => IF live[j] = {}
                    THEN /\ counts'[j].skipped = counts[j].skipped
                         /\ counts'[j].created = counts[j].created + 1
                         /\ running_tasks'[j] \in live'[j]
                    ELSE counts'[j].skipped = counts[j].skipped + 1
        /\ (~engine.stopped /\ engine'.stopped /\ engine'.running)
           => \E k \in JobIds : /\ live[k] # {}
                                /\ live'[k] = {}
                                /\ running_tasks'[k] = 0
      ]_vars

(* stop has cancelled the first task of send_pending_checkins, the only job
   that has started tasks, and the next firing of the job was not skipped:
   its second task is in flight *)
C39_FiredAfterCancellation ==
    /\ engine.stopped
    /\ engine.running
    /\ counts["schedule_daily_checkins"].created = 0
    /\ counts["send_pending_checkins"].created = 2
    /\ counts["send_pending_checkins"].skipped = 0
    /\ counts["send_pending_checkins"].failed = 0
    /\ live["send_pending_checkins"] = {2}
    /\ running_tasks["send_pending_checkins"] = 2

(* C32: a task in flight never blocks the other jobs: while the task of one
   job is in flight (its callback possibly waiting for it), the trigger of
   every other registered job can still fire, and a firing of a job that has
   no task in flight itself starts a task, which then is in flight together
   with the first one *)
C32_OtherJobsNotBlocked ==
    /\ [](\A j, k \in JobIds :
            ( /\ j # k /\ live[j] # {}
              /\ engine.running /\ Registered(jobs, k)
              /\ counts[k].fired < MaxFires ) => ENABLED Fire(k))
    /\ [][ \A j, k \in JobIds :
             ( /\ j # k /\ live[j] # {} /\ live[k] = {}
               /\ counts'[k].fired = counts[k].fired + 1 )
             => /\ counts'[k].created = counts[k].created + 1
                /\ live'[k] # {}
                /\ live'[j] = live[j]
                /\ running_tasks'[j] = running_tasks[j] ]_vars

(* the trigger of send_pending_checkins fired while the callback of
   schedule_daily_checkins was waiting for its task: both tasks are in flight *)
C32_BothInFlight ==
    /\ counts["schedule_daily_checkins"].awaiting = 1
    /\ live["schedule_daily_checkins"] # {}
    /\ live["send_pending_checkins"] # {}
    /\ counts["schedule_daily_checkins"].created = 1
    /\ counts["send_pending_checkins"].created = 1
    /\ counts["schedule_daily_checkins"].failed = 0

(* C21: once stop has returned no task is in flight, running_tasks is empty
   and the scheduler is shut down *)
C21_StopShutsDown ==
    engine.stopped
    => /\ \A j \in JobIds : live[j] = {} /\ running_tasks[j] = 0
       /\ ~engine.running

(* Weekly reports *)
ReportRequests ==
    {<<u, c, w>> : u \in {"u3"}, c \in {None, "c3"}, w \in {NoWeek, 1}}
        \cup {<<"u1", None, NoWeek>>}

ReportNext ==
    \/ \E r \in ReportRequests :
          rate_limiter = NewRateLimiter /\ GenerateWeeklyReport(r[1], r[2], r[3], "ok")
    \/ \E r \in ReportRequests : AnalyticsGenerateCheck(r[1], r[2], r[3])
    \/ \E k \in 1..MaxPending : AnalyticsGenerateSave(k)

SpecReport == Init /\ [][ReportNext]_vars

(* C8: a generate call for a key that already has a report succeeds and
   returns the report stored for exactly that (user, child-or-null, week) *)
C8_SecondGenerateReturnsStored ==
    ( /\ reportLast.op \in {"generate_weekly_report", "analytics_generate"}
      /\ reportLast.existed )
    => /\ reportLast.result = "ok"
       /\ reportLast.returned \in StoredFor(weekly_reports, reportLast.user_id,
                                             reportLast.child_id,
                                             reportLast.week_start)

(* C9: there is at most one report per (user, child-or-null, week), also when
   generate calls for one key interleave, and a stored report never changes *)
C9_UniqueAndImmutable ==
    [][ /\ Len(weekly_reports') >= Len(weekly_reports)
        /\ \A i \in 1..Len(weekly_reports) : weekly_reports'[i] = weekly_reports[i]
        /\ \A i, j \in 1..Len(weekly_reports') :
              SameKey(weekly_reports'[i], weekly_reports'[j].user_id,
                      weekly_reports'[j].child_id, weekly_reports'[j].week_start)
                  => i = j
      ]_vars

(* two generate calls for one key interleaved: both passed the existence
   check, and the save of the second was rejected by the unique index *)
C9_InterleavedSaveRejected ==
    /\ reportLast.op = "analytics_generate"
    /\ reportLast.result = "IntegrityError"
    /\ StoredFor(weekly_reports, reportLast.user_id, reportLast.child_id,
                 reportLast.week_start) # {}

---------------------------------------------------------------------------
(* The questions of the check-ins of the domain stack *)
QuestionNext ==
    \/ Tick
    \/ \E c \in {None, "c1", "c2", "c3"}, category \in Categories :
          Len(checkin_repository) < MaxDomainCheckins /\ ScheduleCheckin(c, category)

SpecQuestion == Init /\ [][QuestionNext]_vars

(* C37: schedule_checkin never fails for lack of a question: for the user
   without a child and for every child of the user, in every category of the
   bank, a question is selected *)
C37_QuestionAlwaysFound ==
    domLast.op = "schedule" => domLast.message # "No appropriate questions found"

(* Reports over the translations of a week *)
WeekNext ==
    \/ Tick
    \/ \E c \in {None, "c3"}, event \in {"ok", "http_5xx"} :
          /\ weekly_reports = <<>>
          /\ Len(translations) < MaxTranslations
          /\ CreateEmotionTranslationPremium(c, event)
    \/ \E c \in {None, "c3"}, event \in ProviderEvents :
          /\ StoredFor(weekly_reports, "u3", c, ResolveWeek(NoWeek, now)) = {}
          /\ GenerateWeeklyReport("u3", c, NoWeek, event)
    \/ (pending = <<>> /\ AnalyticsGenerateCheck("u3", None, NoWeek))
    \/ AnalyticsGenerateSave(1)

SpecWeek == Init /\ [][WeekNext]_vars

(* C33: the total_translations of a report counts exactly the COMPLETED
   translations of the user (of the child, when given) created within the
   week of the report, in both services: nothing of another week, no FAILED
   translation, nothing of the week left out *)
C33_ReportCountsTheWeek ==
    [][ /\ (Len(weekly_reports') = Len(weekly_reports) + 1
            /\ reportLast'.op = "generate_weekly_report")
           => LET report == weekly_reports'[Len(weekly_reports')] IN
              report.total_translations
                  = Cardinality(WeekTranslations(translations, report.user_id,
                                                 report.child_id,
                                                 report.week_start))
        /\ Len(pending') = Len(pending) + 1
           => LET call == pending'[Len(pending')] IN
              call.total_translations
                  = Cardinality(WeekTranslations(translations, call.user_id,
                                                 call.child_id, call.week_start))
      ]_vars

(* C34: when the provider call for the texts of the report fails (the
   limiter refuses it, the provider answers with an error or cannot be
   reached, or the reply cannot be parsed), generate raises no error of the
   provider: the report of a key that has no report yet is stored, and its
   texts are the ones written without the provider, which depend on nothing
   but the week and the counts of the week *)
C34_ProviderFailureFallsBack ==
    ( /\ reportLast.op = "generate_weekly_report"
      /\ reportLast.provider # "ok"
      /\ ~reportLast.existed )
    => /\ reportLast.result = "ok"
       /\ reportLast.returned \in 1..Len(weekly_reports)
       /\ LET report == weekly_reports[reportLast.returned] IN
          /\ report.user_id = reportLast.user_id
          /\ report.child_id = reportLast.child_id
          /\ report.week_start = reportLast.week_start
          /\ report.summary = FallbackReport(report.week_start,
                                             report.total_translations)

(* a report was stored after the provider had answered with an error, and
   another after the limiter had refused the call *)
C34_FallbackStored ==
    /\ reportLast.op = "generate_weekly_report"
    /\ reportLast.provider = "limited"
    /\ reportLast.result = "ok"
    /\ Len(weekly_reports) = 2
    /\ weekly_reports[1].summary.source = "fallback"
    /\ weekly_reports[2].summary.source = "fallback"
    /\ \E i \in 1..Len(translations) : translations[i].status = "COMPLETED"

---------------------------------------------------------------------------
(* On-demand translation with the provider call and the explicit retry *)
ProviderNext ==
    \/ Tick
    \/ \E event \in ProviderEvents, arrives_as \in ArrivesAs :
          CreateEmotionTranslationVia(event, arrives_as, TRUE)
    \/ CreateEmotionTranslationVia("ok", "httpx", FALSE)
    \/ \E translation_id \in 1..MaxTranslations, event \in ProviderEvents,
          arrives_as \in ArrivesAs :
          RetryFailedTranslation(translation_id, event, arrives_as)

SpecProvider == Init /\ [][ProviderNext]_vars

(* C35: a retry that succeeds has the effects of a first translation that
   succeeds: the row goes from FAILED to COMPLETED and the usage counter of
   the user, as check_daily_limit left it, grows by exactly one *)
C35_RetryCountsOnce ==
    [][ \A id \in 1..Len(translations) :
          ( /\ Len(translations') = Len(translations)
            /\ translations[id].status = "FAILED"
            /\ translations'[id].status = "COMPLETED" )
          => users'.daily_requests_count
                 = CheckDailyLimit(users, Today(now)).user.daily_requests_count + 1
      ]_vars

(* The limiter of the provider under a series of calls *)
MaxLimiterCalls == 5

LimiterNext ==
    \/ Tick
    \/ \E event \in {"ok", "http_5xx"} :
          /\ Len(translations) < MaxLimiterCalls
          /\ CreateEmotionTranslationPremium(None, event)

SpecLimiter == Init /\ [][LimiterNext]_vars

(* C38: the limiter keeps two rolling windows that do not depend on each
   other: within no minute it admits more than requests_per_minute calls and
   within no 24 hours more than requests_per_day; a call is refused only when
   one of the two windows that end with it is full, so it is admitted as soon
   as enough earlier calls have left the window; an admitted call is recorded
   in both lists and a refused call in neither *)
C38_TwoRollingWindows ==
    LET \* the calls admitted within the window that ends at the time t
        AdmittedWithin(t, window) ==
            SelectSeq(rate_limiter.admitted, LAMBDA a : a <= t /\ t - a < window)
    IN
        /\ \A t \in 0..MaxTime :
              /\ Len(AdmittedWithin(t, 1)) <= RequestsPerMinute
              /\ Len(AdmittedWithin(t, TicksPerDay)) <= RequestsPerDay
        /\ rate_limiter.last.t # NoTime
           => /\ rate_limiter.last.admitted
                 => /\ rate_limiter.admitted # <<>>
                    /\ rate_limiter.admitted[Len(rate_limiter.admitted)]
                           = rate_limiter.last.t
              /\ ~rate_limiter.last.admitted
                 => \/ Len(AdmittedWithin(rate_limiter.last.t, 1)) >= RequestsPerMinute
                    \/ Len(AdmittedWithin(rate_limiter.last.t, TicksPerDay))
                           >= RequestsPerDay
              /\ rate_limiter.minute_requests = AdmittedWithin(rate_limiter.last.t, 1)
              /\ rate_limiter.daily_requests
                     = AdmittedWithin(rate_limiter.last.t, TicksPerDay)

(* a call was refused by the window of the day while the window of the minute
   had room, and a later call was admitted when the day had room again *)
C38_AdmittedAgain ==
    LET AdmittedWithin(t, window) ==
            SelectSeq(rate_limiter.admitted, LAMBDA a : a <= t /\ t - a < window)
    IN
        /\ rate_limiter.last.admitted
        /\ Len(rate_limiter.admitted) > RequestsPerDay
        /\ \E i \in 1..Len(translations) :
              /\ translations[i].status = "FAILED"
              /\ translations[i].error_message
                     = "AI service temporarily unavailable. Please try again later."
              /\ Len(AdmittedWithin(translations[i].created_at, 1)) < RequestsPerMinute
              /\ Len(AdmittedWithin(translations[i].created_at, TicksPerDay))
                     = RequestsPerDay
              /\ \A a \in Range(rate_limiter.admitted) :
                     a # translations[i].created_at

(* C40: a stored translation is never left PENDING (or PROCESSING) when the
   call that drives it has ended, by a return or by an error: its status is
   COMPLETED or FAILED *)
C40_NeverLeftPending ==
    \A i \in 1..Len(translations) :
        translations[i].status \in {"COMPLETED", "FAILED"}

(* C11: when the provider answers 429 or the limiter of the provider is
   exceeded, analyze_child_emotions raises RateLimitExceededError with
   retry_after > 0 *)
C11_RateLimitErrorWithRetryAfter ==
    (/\ quotaLast.op \in {"translate", "retry"}
     /\ quotaLast.limited \/ quotaLast.provider = "http_429")
    => /\ quotaLast.analysis = "RateLimitExceededError"
       /\ quotaLast.retry_after > 0

(* C14: a provider call that fails with a connection error or a 5xx status
   leaves the translation FAILED with the fixed message and the caller gets
   ExternalServiceError; nothing is cached; a FAILED translation changes only
   in a retry_failed_translation call on it and a COMPLETED translation never
   changes *)
C14_FailedUntilExplicitRetry ==
    [][/\ \A i \in 1..Len(translations) :
             translations[i].status = "COMPLETED"
             => translations'[i] = translations[i]
       /\ \A i \in 1..Len(translations) :
             (translations[i].status = "FAILED"
              /\ translations'[i] # translations[i])
             => (quotaLast'.op = "retry" /\ quotaLast'.target = i)
       /\ redis' = redis
       /\ (quotaLast'.op = "translate"
           /\ quotaLast'.provider \in {"http_5xx", "connect_error"})
          => /\ quotaLast'.result = "ExternalServiceError"
             /\ translations'[quotaLast'.target] =
                    [NewTranslation EXCEPT
                        !.created_at = translations'[quotaLast'.target].created_at,
                        !.status = "FAILED",
                        !.error_message =
                            "AI service temporarily unavailable. Please try again later.",
                        !.attempts = 1]]_vars

C14_FailedAfterProviderFailure ==
    /\ quotaLast.op = "translate"
    /\ quotaLast.provider \in {"http_5xx", "connect_error"}
    /\ quotaLast.result = "ExternalServiceError"
    /\ translations[quotaLast.target].status = "FAILED"
    /\ translations[quotaLast.target].attempts = 1

(* C15: a provider reply that is no JSON or lacks the required structure is
   not raised to the caller: the call succeeds *)
C15_MalformedReplyNotRaised ==
    (quotaLast.op \in {"translate", "retry"} /\ quotaLast.provider = "malformed")
    => quotaLast.result = "ok"

---------------------------------------------------------------------------
(* The job registry *)
RegistryNext ==
    \/ \E job_id \in RegistryIds, func \in Funcs : AddJob(job_id, func)
    \/ \E job_id \in RegistryIds : RemoveJob(job_id)
    \/ \E i \in 1..(Cardinality(RegistryIds)) : TriggerJob(i)

SpecRegistry == Init /\ [][RegistryNext]_vars

(* C16: the registry holds at most one job of an id; add_job raises nothing
   and leaves exactly one job of its id, with the definition just added; a
   job that fires runs the definition added last under its id; remove_job
   raises nothing and, for an id that is not registered, leaves the registry
   as it was *)
C16_AddRemoveIdempotent ==
    /\ \A i, k \in 1..Len(jobs) : jobs[i].id = jobs[k].id => i = k
    /\ scheduler.op = "add_job"
       => /\ scheduler.raised = None
          /\ \E i \in 1..Len(jobs) :
                jobs[i] = [id |-> scheduler.job_id, func |-> scheduler.func]
    /\ scheduler.op = "fire"
       => scheduler.func = scheduler.added[scheduler.job_id]
    /\ scheduler.op = "remove_job"
       => /\ scheduler.raised = None
          /\ JobIndex(jobs, scheduler.job_id) = {}
          /\ JobIndex(scheduler.before, scheduler.job_id) = {}
             => jobs = scheduler.before

(* the custom job was added twice, with two definitions, and has fired *)
C16_SecondDefinitionFires ==
    /\ scheduler.op = "fire"
    /\ scheduler.job_id = "custom_job"
    /\ scheduler.func = "second_definition"
    /\ Len(jobs) = Cardinality(JobIds) + 1

---------------------------------------------------------------------------
(* The misfire handling *)
MisfireNext == \E gap \in 1..MaxGap, coalesce \in BOOLEAN : Wakeup(gap, coalesce)

SpecMisfire == Init /\ [][MisfireNext]_vars

(* C19: at a wake-up, an occurrence of a job older than the misfire grace
   time of the job is not run, an occurrence within it is run, and at most
   one occurrence of a job is run however many were due *)
C19_MisfirePolicy ==
    \A j \in JobIds :
        /\ Cardinality(engine.executed[j]) <= 1
        /\ engine.executed[j] \subseteq engine.due[j]
        /\ \A r \in engine.due[j] :
              IF engine.wall - r > MisfireGraceTime[j]
              THEN r \notin engine.executed[j]
              ELSE engine.executed[j] = {r}

(* after a downtime over several occurrences of send_pending_checkins the
   latest one, still within the grace time, was run alone *)
C19_OneCatchUpAfterDowntime ==
    /\ Cardinality(engine.due["send_pending_checkins"]) >= 3
    /\ Cardinality(engine.executed["send_pending_checkins"]) = 1
    /\ engine.wall - engine.previous > TriggerPeriod["send_pending_checkins"]

====
